----------------------------- MODULE Mutations -----------------------------
(***************************************************************************)
(* internal/api/mutations.go and rollback.go; source_mutations.go,         *)
(* image_mutations.go and alert_mutations.go dispatch other kinds through  *)
(* the same steps.  Every request runs in its own goroutine: it is         *)
(* authorised, the cluster is looked up, the object is read, a JSON merge  *)
(* patch of the difference between what was read and what is wanted is     *)
(* sent, the answer is mapped to a status code and one audit record is     *)
(* written.  The objects, their Flux controllers and other writers, and    *)
(* the registry entry that the Cluster controller maintains are external.  *)
(*                                                                         *)
(* An object is reduced to the fields requests are about: spec.suspend,    *)
(* spec.chart.spec.version (Unpinned for what is not a HelmRelease with a  *)
(* pinned chart), the annotations requestedAt and forceAt, and             *)
(* status.lastHandledReconcileAt.  time.Now never repeats a value.         *)
(***************************************************************************)
EXTENDS Naturals, Sequences

CONSTANTS
  Requests, Objects, Versions,
  Unpinned,    \* the version of what has no pinned chart
  NoRevision,  \* a rollback body that does not decode or names no revision
  MaxEdits     \* bound: writes by operators and Git

ASSUME MaxEditsAssumption == MaxEdits \in Nat

VARIABLES
  obj, req, edits,
  rpc,      \* rpc[r]: where the handler of r is
  base,     \* base[r]: the object as r read it
  wanted,   \* wanted[r]: base[r] with r's change
  reply,    \* reply[r]: what r was answered
  audit,    \* audit[r]: the audit records of r
  clock,    \* the last value of time.Now
  up,       \* the cluster is registered and its last probe reached it
  flux,     \* flux[o]: the requestedAt its controller is working on, 0: idle
  applied,  \* history: requests whose change reached the object or was there when read
  served    \* history: requests for which Flux has started work since

objVars == <<obj, req, edits>>
mutVars == <<objVars, rpc, base, wanted, reply, audit, clock, up, flux, applied, served>>

Object == [live : BOOLEAN, suspend : BOOLEAN, version : Versions \union {Unpinned},
           requested : Nat, forced : Nat, handled : Nat]

Request ==
  [verb : {"reconcile", "suspend", "resume"}, target : Objects, revision : {NoRevision}, allowed : BOOLEAN]
  \union
  [verb : {"rollback"}, target : Objects, revision : Versions \union {NoRevision}, allowed : BOOLEAN]

NewObjects == [live : {TRUE}, suspend : BOOLEAN, version : Versions \union {Unpinned},
               requested : {0}, forced : {0}, handled : {0}]

NoObject == [live |-> FALSE, suspend |-> FALSE, version |-> Unpinned,
             requested |-> 0, forced |-> 0, handled |-> 0]

MutInit ==
  /\ obj \in [Objects -> NewObjects]
  /\ req \in [Requests -> Request]
  /\ edits = 0
  /\ rpc = [r \in Requests |-> "ready"]
  /\ base = [r \in Requests |-> NoObject] /\ wanted = base
  /\ reply = [r \in Requests |-> "none"]
  /\ audit = [r \in Requests |-> <<>>]
  /\ clock = 0
  /\ up \in BOOLEAN
  /\ flux = [o \in Objects |-> 0]
  /\ applied = {} /\ served = {}

----------------------------------------------------------------------------
(* The handler *)

(* The answer, and the record of the deferred audit.Record. *)
Finish(r, outcome) ==
  /\ rpc' = [rpc EXCEPT ![r] = "done"]
  /\ reply' = [reply EXCEPT ![r] = outcome]
  /\ audit' = [audit EXCEPT ![r] = Append(@, outcome)]
  /\ base' = [base EXCEPT ![r] = NoObject]
  /\ wanted' = [wanted EXCEPT ![r] = NoObject]

Aside == UNCHANGED <<req, edits, up, flux, served>>

RejectBody(r) ==
  /\ rpc[r] = "ready" /\ req[r].verb = "rollback" /\ req[r].revision = NoRevision
  /\ rpc' = [rpc EXCEPT ![r] = "done"]
  /\ reply' = [reply EXCEPT ![r] = "bad request"]
  /\ UNCHANGED <<obj, base, wanted, audit, clock, applied>> /\ Aside

(* Mutant: an empty revision is not refused. *)
AcceptedUnchecked(r) == TRUE

Accepted(r) == req[r].verb = "rollback" => req[r].revision # NoRevision

(* Mutant: no return after the denial. *)
DenyAndGoOn(r) ==
  /\ rpc[r] = "ready" /\ Accepted(r) /\ ~req[r].allowed
  /\ rpc' = [rpc EXCEPT ![r] = "get"]
  /\ audit' = [audit EXCEPT ![r] = Append(@, "denied")]
  /\ UNCHANGED <<obj, base, wanted, reply, clock, applied>> /\ Aside

Deny(r) ==
  /\ rpc[r] = "ready" /\ Accepted(r) /\ ~req[r].allowed
  /\ Finish(r, "denied")
  /\ UNCHANGED <<obj, clock, applied>> /\ Aside

(* Unknown cluster, or not reachable at its last probe. *)
Refuse(r) ==
  /\ rpc[r] = "ready" /\ Accepted(r) /\ req[r].allowed
  /\ ~up
  /\ Finish(r, "error")
  /\ UNCHANGED <<obj, clock, applied>> /\ Aside

Enter(r) ==
  /\ rpc[r] = "ready" /\ Accepted(r) /\ req[r].allowed
  /\ up
  /\ rpc' = [rpc EXCEPT ![r] = "get"]
  /\ UNCHANGED <<obj, base, wanted, reply, audit, clock, applied>> /\ Aside

(* Not found, unsupported kind, refused by the API server, timed out. *)
GetFails(r) ==
  /\ rpc[r] = "get"
  /\ Finish(r, "error")
  /\ UNCHANGED <<obj, clock, applied>> /\ Aside

Supported(r, x) == x.live /\ (req[r].verb = "rollback" => x.version # Unpinned)

(* Mutant: time stamps of a resolution coarser than the requests' distance. *)
NowCoarse(n) == clock' = IF clock = 0 THEN n ELSE clock

Now(n) == clock' = clock + n

(* The change in memory: setSuspend, annotate, rollbackHelmRelease.  The   *)
(* two annotations of a rollback come from two calls of time.Now.          *)
Change(r, x) ==
  \/ req[r].verb = "suspend" /\ UNCHANGED clock
     /\ wanted' = [wanted EXCEPT ![r] = [x EXCEPT !.suspend = TRUE]]
  \/ req[r].verb = "resume" /\ UNCHANGED clock
     /\ wanted' = [wanted EXCEPT ![r] = [x EXCEPT !.suspend = FALSE]]
  \/ req[r].verb = "reconcile" /\ Now(1)
     /\ wanted' = [wanted EXCEPT ![r] = [x EXCEPT !.requested = clock']]
  \/ req[r].verb = "rollback" /\ Now(2)
     /\ wanted' = [wanted EXCEPT ![r] = [x EXCEPT !.version = req[r].revision,
                                                  !.requested = clock' - 1, !.forced = clock']]

Get(r) ==
  LET x == obj[req[r].target] IN
  /\ rpc[r] = "get"
  /\ Supported(r, x)
  /\ base' = [base EXCEPT ![r] = x]
  /\ Change(r, x)
  /\ rpc' = [rpc EXCEPT ![r] = "patch"]
  /\ applied' = IF wanted'[r] = x THEN applied \union {r} ELSE applied
  /\ UNCHANGED <<obj, reply, audit>> /\ Aside

(* Mutant: the object read is written back as a whole (Update). *)
MergedOverwrites(r, x) == wanted[r]

(* client.MergeFrom: only what differs between base and wanted is sent. *)
Merged(r, x) ==
  [f \in DOMAIN x |-> IF wanted[r][f] # base[r][f] THEN wanted[r][f] ELSE x[f]]

(* The API server applies the patch. *)
Patch(r) ==
  LET o == req[r].target IN
  /\ rpc[r] = "patch"
  /\ obj[o].live
  /\ obj' = [obj EXCEPT ![o] = Merged(r, @)]
  /\ rpc' = [rpc EXCEPT ![r] = "answer"]
  /\ applied' = applied \union {r}
  /\ UNCHANGED <<base, wanted, reply, audit, clock>> /\ Aside

(* It does not: the object is gone, the patch is refused, or time is up. *)
PatchFails(r) ==
  /\ rpc[r] = "patch"
  /\ Finish(r, "error")
  /\ UNCHANGED <<obj, clock, applied>> /\ Aside

Answer(r) ==
  /\ rpc[r] = "answer"
  /\ Finish(r, "ok")
  /\ UNCHANGED <<obj, clock, applied>> /\ Aside

(* The patch was applied, but its answer did not arrive in time. *)
AnswerLost(r) ==
  /\ rpc[r] = "answer"
  /\ Finish(r, "error")
  /\ UNCHANGED <<obj, clock, applied>> /\ Aside

----------------------------------------------------------------------------
(* The environment *)
Handlers == UNCHANGED <<req, rpc, base, wanted, reply, audit, clock, applied>>

(* The Cluster controller rebuilds, probes or forgets the cluster. *)
EntryChanges ==
  /\ up' = ~up
  /\ UNCHANGED <<obj, edits, flux, served>> /\ Handlers

(* kubectl, or Git through Flux, writes suspend or the chart version. *)
OperatorEdits(o) ==
  /\ edits < MaxEdits /\ obj[o].live
  /\ edits' = edits + 1
  /\ \/ obj' = [obj EXCEPT ![o].suspend = ~@]
     \/ /\ obj[o].version # Unpinned
        /\ \E v \in Versions \ {obj[o].version} : obj' = [obj EXCEPT ![o].version = v]
     \/ obj' = [obj EXCEPT ![o].live = FALSE]
  /\ UNCHANGED <<up, flux, served>> /\ Handlers

(* The object's Flux controller notices a new requestedAt unless it is     *)
(* suspended, works, and reports what it had read at the start.            *)
FluxStarts(o) ==
  /\ flux[o] = 0
  /\ obj[o].live /\ ~obj[o].suspend /\ obj[o].requested # obj[o].handled
  /\ flux' = [flux EXCEPT ![o] = obj[o].requested]
  /\ served' = served \union {r \in applied : req[r].target = o}
  /\ UNCHANGED <<obj, edits, up>> /\ Handlers

FluxEnds(o) ==
  /\ flux[o] # 0
  /\ flux' = [flux EXCEPT ![o] = 0]
  /\ obj' = [obj EXCEPT ![o].handled = IF obj[o].live THEN flux[o] ELSE @]
  /\ UNCHANGED <<edits, up, served>> /\ Handlers

----------------------------------------------------------------------------
HandlerStep(r) ==
  \/ RejectBody(r) \/ Deny(r) \/ Refuse(r) \/ Enter(r) \/ GetFails(r) \/ Get(r)
  \/ Patch(r) \/ PatchFails(r) \/ Answer(r) \/ AnswerLost(r)

MutNext ==
  \/ \E r \in Requests : HandlerStep(r)
  \/ EntryChanges
  \/ \E o \in Objects : OperatorEdits(o) \/ FluxStarts(o) \/ FluxEnds(o)

(* A handler that runs ends, within its 10 s budget; Flux works. *)
MutFairness ==
  /\ \A r \in Requests : WF_mutVars(rpc[r] # "ready" /\ HandlerStep(r))
  /\ \A o \in Objects : WF_mutVars(FluxStarts(o)) /\ WF_mutVars(FluxEnds(o))

MutSpec == MutInit /\ [][MutNext]_mutVars

FairMutSpec == MutSpec /\ MutFairness

----------------------------------------------------------------------------
Outcomes == {"ok", "denied", "error"}

MutTypeOK ==
  /\ obj \in [Objects -> Object]
  /\ req \in [Requests -> Request]
  /\ edits \in 0 .. MaxEdits
  /\ rpc \in [Requests -> {"ready", "get", "patch", "answer", "done"}]
  /\ base \in [Requests -> Object] /\ wanted \in [Requests -> Object]
  /\ reply \in [Requests -> Outcomes \union {"none", "bad request"}]
  /\ audit \in [Requests -> Seq(Outcomes)]
  /\ clock \in Nat
  /\ up \in BOOLEAN
  /\ flux \in [Objects -> Nat]
  /\ applied \in SUBSET Requests /\ served \in SUBSET Requests

(* The audit log tells the truth: once a request has been answered, it has *)
(* exactly one record, with the outcome the user was told; "ok" is only    *)
(* recorded for a change that is in the cluster, and a denied request has  *)
(* not touched it (mutations.go:78-82: "emit one audit record per request  *)
(* regardless of outcome").  A rollback refused for its body never reaches *)
(* runMutation.                                                            *)
AuditTruth ==
  \A r \in Requests :
    /\ rpc[r] # "done" => audit[r] = <<>>
    /\ rpc[r] = "done" /\ Accepted(r) => audit[r] = <<reply[r]>>
    /\ audit[r] = <<"ok">> => r \in applied
    /\ r \in applied => req[r].allowed

(* A reconcile request that reached the object is worked on by Flux after  *)
(* that, even if another request overwrites its time stamp while Flux is   *)
(* at work, as long as the object stays and is not suspended.              *)
RequestsServed ==
  \A r \in Requests :
    LET o == req[r].target IN
    /\ req[r].verb = "reconcile"
    /\ <>[](obj[o].live /\ ~obj[o].suspend)
    => (r \in applied ~> r \in served)

(* What a rollback asks for forces a release: helm-controller only does so *)
(* when both annotations are equal (rollback.go:16-19:                     *)
(* "ForceRequestAnnotation must equal this same value to trigger a force   *)
(* release").                                                              *)
RollbackForces ==
  \A r \in Requests :
    rpc[r] = "answer" /\ req[r].verb = "rollback"
      /\ obj[req[r].target].requested = wanted[r].requested
      => obj[req[r].target].forced = wanted[r].requested

----------------------------------------------------------------------------
(* Requests take effect atomically.  One that finds its change already     *)
(* made has its effect when it reads, any other when it is patched.        *)
Progress(r) ==
  IF rpc[r] = "ready" THEN "ready"
  ELSE IF rpc[r] = "done" THEN IF reply[r] = "ok" THEN "accepted" ELSE "failed"
  ELSE IF r \in applied THEN "applied" ELSE "called"

Atomic == INSTANCE AtomicMutations WITH st <- [r \in Requests |-> Progress(r)]

ImplementsAtomic == Atomic!AtomicSpec
=============================================================================
