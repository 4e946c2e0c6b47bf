-------------------------- MODULE MutationsProofs --------------------------
(***************************************************************************)
(* Proofs about Mutations, for any number of requests, objects, versions   *)
(* and operators' writes: the audit log tells the truth, and every request *)
(* takes effect atomically whatever else is written to its object.         *)
(***************************************************************************)
EXTENDS Mutations, TLAPS

Fields == {"live", "suspend", "version", "requested", "forced", "handled"}

(* An object is a function on its fields. *)
LEMMA ObjectFields ==
  ASSUME NEW x \in Object
  PROVE  /\ DOMAIN x = Fields
         /\ x.live \in BOOLEAN /\ x.suspend \in BOOLEAN
         /\ x.version \in Versions \union {Unpinned}
         /\ x.requested \in Nat /\ x.forced \in Nat /\ x.handled \in Nat
  BY DEF Object, Fields

(* A merge patch takes each field from one of its arguments. *)
LEMMA MergedFields ==
  ASSUME NEW r \in Requests, NEW x \in Object
  PROVE  LET y == Merged(r, x) IN
         /\ y = [live      |-> IF wanted[r].live # base[r].live THEN wanted[r].live ELSE x.live,
                 suspend   |-> IF wanted[r].suspend # base[r].suspend THEN wanted[r].suspend ELSE x.suspend,
                 version   |-> IF wanted[r].version # base[r].version THEN wanted[r].version ELSE x.version,
                 requested |-> IF wanted[r].requested # base[r].requested THEN wanted[r].requested ELSE x.requested,
                 forced    |-> IF wanted[r].forced # base[r].forced THEN wanted[r].forced ELSE x.forced,
                 handled   |-> IF wanted[r].handled # base[r].handled THEN wanted[r].handled ELSE x.handled]
  BY ObjectFields DEF Merged, Fields

LEMMA MergedType ==
  ASSUME NEW r \in Requests, NEW x \in Object,
         base \in [Requests -> Object], wanted \in [Requests -> Object]
  PROVE  Merged(r, x) \in Object
<1>1. base[r] \in Object /\ wanted[r] \in Object
  OBVIOUS
<1> QED BY <1>1, MergedFields, ObjectFields DEF Object

(* What a handler sends differs from what it read in the fields of its     *)
(* verb only, and is the same as what it read exactly for the requests     *)
(* that found their change already made.                                   *)
Wants(r) ==
  /\ base[r] # wanted[r] => r \notin applied
  /\ base[r] = wanted[r] => r \in applied
  /\ wanted[r].live = base[r].live /\ wanted[r].handled = base[r].handled
  /\ req[r].verb # "rollback" => wanted[r].version = base[r].version /\ wanted[r].forced = base[r].forced
  /\ req[r].verb \in {"suspend", "resume"} => wanted[r].requested = base[r].requested
  /\ req[r].verb \in {"reconcile", "rollback"} => wanted[r].suspend = base[r].suspend
  /\ req[r].verb = "suspend" => wanted[r].suspend
  /\ req[r].verb = "resume" => ~wanted[r].suspend
  /\ req[r].verb = "rollback" => wanted[r].version = req[r].revision

(* Where the handler of r is, and what has become of its request. *)
Course(r) ==
  /\ rpc[r] = "ready" => r \notin applied
  /\ rpc[r] = "get" => r \notin applied
  /\ rpc[r] = "patch" => Wants(r)
  /\ rpc[r] = "answer" => r \in applied
  /\ rpc[r] \in {"get", "patch", "answer"} => Accepted(r) /\ req[r].allowed
  /\ rpc[r] # "done" => audit[r] = <<>>
  /\ rpc[r] = "done" => audit[r] = (IF Accepted(r) THEN <<reply[r]>> ELSE <<>>)
  /\ rpc[r] = "done" /\ reply[r] = "ok" => r \in applied
  /\ r \in applied => req[r].allowed

MutInv == MutTypeOK /\ \A r \in Requests : Course(r)

LEMMA RequestType ==
  ASSUME NEW q \in Request
  PROVE  /\ q.verb \in {"reconcile", "suspend", "resume", "rollback"}
         /\ q.target \in Objects /\ q.allowed \in BOOLEAN
         /\ q.verb = "rollback" /\ q.revision # NoRevision => q.revision \in Versions
  BY DEF Request

LEMMA NoObjectType == NoObject \in Object
  BY DEF NoObject, Object

LEMMA MutInitInv == MutInit => MutInv
<1> SUFFICES ASSUME MutInit PROVE MutInv
  OBVIOUS
<1>1. NewObjects \subseteq Object
  <2> SUFFICES ASSUME NEW x \in NewObjects PROVE x \in Object
    OBVIOUS
  <2>1. x = [live |-> x.live, suspend |-> x.suspend, version |-> x.version,
             requested |-> x.requested, forced |-> x.forced, handled |-> x.handled]
    BY DEF NewObjects
  <2>2. /\ x.live \in {TRUE} /\ x.suspend \in BOOLEAN /\ x.version \in Versions \union {Unpinned}
        /\ x.requested \in {0} /\ x.forced \in {0} /\ x.handled \in {0}
    BY DEF NewObjects
  <2>3. {TRUE} \subseteq BOOLEAN /\ {0} \subseteq Nat
    OBVIOUS
  <2> QED BY <2>1, <2>2, <2>3 DEF Object
<1>2. obj \in [Objects -> Object]
  <2>1. obj \in [Objects -> NewObjects]
    BY DEF MutInit
  <2> QED BY <1>1, <2>1
<1>3. audit = [r \in Requests |-> <<>>] /\ <<>> \in Seq(Outcomes)
  BY DEF MutInit
<1>4. audit \in [Requests -> Seq(Outcomes)]
  BY <1>3
<1>5. base \in [Requests -> Object] /\ wanted \in [Requests -> Object]
  BY NoObjectType DEF MutInit
<1>6. MutTypeOK
  BY <1>2, <1>4, <1>5, MaxEditsAssumption DEF MutTypeOK, MutInit
<1>7. \A r \in Requests : rpc[r] = "ready" /\ audit[r] = <<>> /\ r \notin applied
  BY <1>3 DEF MutInit
<1>8. \A r \in Requests : Course(r)
  BY <1>7 DEF Course
<1> QED BY <1>6, <1>8 DEF MutInv

(* Whatever a handler answers, the invariant is kept as long as "ok" is    *)
(* only answered for a change that was made.                               *)
LEMMA FinishInv ==
  ASSUME MutInv, NEW r \in Requests, NEW outcome \in Outcomes,
         rpc[r] # "done", Accepted(r), outcome = "ok" => r \in applied,
         Finish(r, outcome), UNCHANGED <<obj, clock, applied>>, Aside
  PROVE  MutInv'
<1> USE DEF MutInv
<1>1. audit[r] = <<>> /\ audit'[r] = <<outcome>> /\ reply'[r] = outcome /\ rpc'[r] = "done"
  <2>1. audit[r] = <<>>
    BY DEF Course
  <2>2. audit'[r] = Append(audit[r], outcome) /\ reply'[r] = outcome /\ rpc'[r] = "done"
    BY DEF Finish, MutTypeOK
  <2>3. Append(<<>>, outcome) = <<outcome>>
    OBVIOUS
  <2> QED BY <2>1, <2>2, <2>3
<1>2. \A x \in Requests \ {r} :
        rpc'[x] = rpc[x] /\ base'[x] = base[x] /\ wanted'[x] = wanted[x] /\ reply'[x] = reply[x] /\ audit'[x] = audit[x]
  BY DEF Finish, MutTypeOK
<1>3. MutTypeOK'
  <2>1. audit[r] \in Seq(Outcomes) /\ Append(audit[r], outcome) \in Seq(Outcomes)
    <3>1. audit[r] \in Seq(Outcomes)
      BY DEF MutTypeOK
    <3> QED BY <3>1
  <2>2. audit' \in [Requests -> Seq(Outcomes)]
    BY <2>1 DEF Finish, MutTypeOK
  <2> QED BY <2>2, NoObjectType DEF Finish, MutTypeOK, Outcomes, Aside
<1>4. Course(r)'
  BY <1>1 DEF Course, Accepted, Aside
<1>5. ASSUME NEW x \in Requests \ {r} PROVE Course(x)'
  BY <1>2, Course(x) DEF Course, Wants, Accepted, Aside
<1> QED BY <1>3, <1>4, <1>5

(* What other goroutines and the environment do leaves r where it is. *)
LEMMA OthersInv ==
  ASSUME NEW x \in Requests, Course(x),
         UNCHANGED <<req, rpc[x], base[x], wanted[x], reply[x], audit[x]>>,
         x \in applied' <=> x \in applied
  PROVE  Course(x)'
  BY DEF Course, Wants, Accepted

LEMMA RejectBodyInv ==
  ASSUME MutInv, NEW r \in Requests, RejectBody(r)
  PROVE  MutInv'
<1> USE DEF MutInv, RejectBody
<1>1. MutTypeOK'
  BY DEF MutTypeOK, Aside
<1>2. Course(r)'
  <2>1. audit'[r] = <<>> /\ rpc'[r] = "done" /\ reply'[r] = "bad request" /\ r \notin applied'
    BY DEF Course, MutTypeOK
  <2>2. ~Accepted(r)'
    BY DEF Accepted, Aside
  <2> QED BY <2>1, <2>2 DEF Course
<1>3. ASSUME NEW x \in Requests \ {r} PROVE Course(x)'
  BY Course(x), OthersInv DEF MutTypeOK, Aside
<1> QED BY <1>1, <1>2, <1>3

LEMMA EnterInv ==
  ASSUME MutInv, NEW r \in Requests, Enter(r)
  PROVE  MutInv'
<1> USE DEF MutInv, Enter
<1>1. MutTypeOK'
  BY DEF MutTypeOK, Aside
<1>2. Course(r)'
  BY DEF Course, MutTypeOK, Accepted, Aside
<1>3. ASSUME NEW x \in Requests \ {r} PROVE Course(x)'
  BY Course(x), OthersInv DEF MutTypeOK, Aside
<1> QED BY <1>1, <1>2, <1>3

(* The change a handler makes in memory. *)
LEMMA ChangeWants ==
  ASSUME NEW r \in Requests, NEW x \in Object, req[r] \in Request, Accepted(r), clock \in Nat,
         wanted \in [Requests -> Object], Change(r, x)
  PROVE  /\ clock' \in Nat
         /\ \E y \in Object :
              /\ wanted' = [wanted EXCEPT ![r] = y]
              /\ y.live = x.live /\ y.handled = x.handled
              /\ req[r].verb # "rollback" => y.version = x.version /\ y.forced = x.forced
              /\ req[r].verb \in {"suspend", "resume"} => y.requested = x.requested
              /\ req[r].verb \in {"reconcile", "rollback"} => y.suspend = x.suspend
              /\ req[r].verb = "suspend" => y.suspend
              /\ req[r].verb = "resume" => ~y.suspend
              /\ req[r].verb = "rollback" => y.version = req[r].revision
<1>1. CASE req[r].verb = "suspend"
  <2> DEFINE y == [x EXCEPT !.suspend = TRUE]
  <2>1. y \in Object
    BY DEF Object
  <2> QED BY <1>1, <2>1 DEF Change, Object
<1>2. CASE req[r].verb = "resume"
  <2> DEFINE y == [x EXCEPT !.suspend = FALSE]
  <2>1. y \in Object
    BY DEF Object
  <2> QED BY <1>2, <2>1 DEF Change, Object
<1>3. CASE req[r].verb = "reconcile"
  <2> DEFINE y == [x EXCEPT !.requested = clock']
  <2>1. clock' \in Nat
    BY <1>3 DEF Change, Now
  <2>2. y \in Object
    BY <2>1 DEF Object
  <2> QED BY <1>3, <2>1, <2>2 DEF Change, Object
<1>4. CASE req[r].verb = "rollback"
  <2> DEFINE y == [x EXCEPT !.version = req[r].revision, !.requested = clock' - 1, !.forced = clock']
  <2>1. clock' \in Nat /\ clock' - 1 \in Nat
    BY <1>4 DEF Change, Now
  <2>2. req[r].revision \in Versions
    BY <1>4, RequestType DEF Accepted
  <2>3. y \in Object
    BY <2>1, <2>2 DEF Object
  <2> QED BY <1>4, <2>1, <2>3 DEF Change, Object
<1> QED BY <1>1, <1>2, <1>3, <1>4, RequestType

LEMMA GetInv ==
  ASSUME MutInv, NEW r \in Requests, Get(r)
  PROVE  MutInv'
<1> DEFINE x == obj[req[r].target]
<1>0. MutTypeOK /\ Course(r)
  BY DEF MutInv
<1>1. req[r] \in Request /\ x \in Object /\ rpc[r] = "get"
  BY <1>0, RequestType DEF MutTypeOK, Get
<1>2. Accepted(r) /\ req[r].allowed /\ r \notin applied /\ audit[r] = <<>>
  BY <1>0, <1>1 DEF Course
<1>3. Change(r, x)
  BY DEF Get
<1>4. PICK y \in Object :
        /\ wanted' = [wanted EXCEPT ![r] = y]
        /\ y.live = x.live /\ y.handled = x.handled
        /\ req[r].verb # "rollback" => y.version = x.version /\ y.forced = x.forced
        /\ req[r].verb \in {"suspend", "resume"} => y.requested = x.requested
        /\ req[r].verb \in {"reconcile", "rollback"} => y.suspend = x.suspend
        /\ req[r].verb = "suspend" => y.suspend
        /\ req[r].verb = "resume" => ~y.suspend
        /\ req[r].verb = "rollback" => y.version = req[r].revision
  BY <1>0, <1>1, <1>2, <1>3, ChangeWants DEF MutTypeOK
<1>5. clock' \in Nat
  BY <1>0, <1>1, <1>2, <1>3, ChangeWants DEF MutTypeOK
<1>6. /\ base' = [base EXCEPT ![r] = x] /\ rpc' = [rpc EXCEPT ![r] = "patch"]
      /\ applied' = IF wanted'[r] = x THEN applied \union {r} ELSE applied
      /\ UNCHANGED <<obj, reply, audit>> /\ Aside
  BY DEF Get
<1>7. MutTypeOK'
  BY <1>0, <1>1, <1>4, <1>5, <1>6 DEF MutTypeOK, Aside
<1>8. wanted'[r] = y /\ base'[r] = x /\ rpc'[r] = "patch" /\ audit'[r] = <<>> /\ req' = req
  BY <1>0, <1>2, <1>4, <1>6 DEF MutTypeOK, Aside
<1>9. Course(r)'
  <2>1. Wants(r)'
    BY <1>2, <1>4, <1>6, <1>8 DEF Wants
  <2> QED BY <2>1, <1>2, <1>8 DEF Course, Accepted
<1>10. ASSUME NEW z \in Requests \ {r} PROVE Course(z)'
  <2>1. Course(z)
    BY DEF MutInv
  <2> QED BY <2>1, <1>0, <1>4, <1>6, OthersInv DEF MutTypeOK, Aside
<1> QED BY <1>7, <1>9, <1>10 DEF MutInv

LEMMA PatchInv ==
  ASSUME MutInv, NEW r \in Requests, Patch(r)
  PROVE  MutInv'
<1> DEFINE o == req[r].target
<1>0. MutTypeOK /\ Course(r)
  BY DEF MutInv
<1>1. req[r] \in Request /\ o \in Objects /\ obj[o] \in Object /\ rpc[r] = "patch"
  BY <1>0, RequestType DEF MutTypeOK, Patch
<1>2. Accepted(r) /\ req[r].allowed /\ audit[r] = <<>>
  BY <1>0, <1>1 DEF Course
<1>3. Merged(r, obj[o]) \in Object
  BY <1>0, <1>1, MergedType DEF MutTypeOK
<1>4. /\ obj' = [obj EXCEPT ![o] = Merged(r, obj[o])] /\ rpc' = [rpc EXCEPT ![r] = "answer"]
      /\ applied' = applied \union {r}
      /\ UNCHANGED <<base, wanted, reply, audit, clock>> /\ Aside
  BY DEF Patch
<1>5. obj' \in [Objects -> Object]
  BY <1>0, <1>1, <1>3, <1>4 DEF MutTypeOK
<1>6. MutTypeOK'
  BY <1>0, <1>4, <1>5 DEF MutTypeOK, Aside
<1>7. Course(r)'
  <2>1. rpc'[r] = "answer" /\ r \in applied' /\ audit'[r] = <<>> /\ req' = req
    BY <1>0, <1>2, <1>4 DEF MutTypeOK, Aside
  <2> QED BY <1>2, <2>1 DEF Course, Accepted
<1>8. ASSUME NEW z \in Requests \ {r} PROVE Course(z)'
  <2>1. Course(z)
    BY DEF MutInv
  <2> QED BY <2>1, <1>0, <1>4, OthersInv DEF MutTypeOK, Aside
<1> QED BY <1>6, <1>7, <1>8 DEF MutInv

(* The environment writes objects of the right type and touches no handler. *)
LEMMA EnvironmentInv ==
  ASSUME MutInv,
         EntryChanges \/ \E o \in Objects : OperatorEdits(o) \/ FluxStarts(o) \/ FluxEnds(o)
  PROVE  MutInv'
<1>0. MutTypeOK
  BY DEF MutInv
<1>1. Handlers
  BY DEF EntryChanges, OperatorEdits, FluxStarts, FluxEnds
<1>2. \A r \in Requests : Course(r)'
  BY <1>1, OthersInv DEF MutInv, Handlers
<1>3. ASSUME EntryChanges PROVE MutTypeOK'
  BY <1>0, <1>1, <1>3 DEF EntryChanges, MutTypeOK, Handlers
<1>4. ASSUME NEW o \in Objects, OperatorEdits(o) PROVE MutTypeOK'
  <2>1. obj[o] \in Object /\ edits \in 0 .. MaxEdits /\ edits' \in 0 .. MaxEdits
    <3>1. edits \in 0 .. MaxEdits /\ edits < MaxEdits /\ edits' = edits + 1
      BY <1>0, <1>4 DEF MutTypeOK, OperatorEdits
    <3>2. obj[o] \in Object
      BY <1>0 DEF MutTypeOK
    <3> QED BY <3>1, <3>2, MaxEditsAssumption
  <2>2. PICK y \in Object : obj' = [obj EXCEPT ![o] = y]
    <3>1. [obj[o] EXCEPT !.suspend = ~obj[o].suspend] \in Object
      BY <2>1 DEF Object
    <3>2. \A v \in Versions : [obj[o] EXCEPT !.version = v] \in Object
      BY <2>1 DEF Object
    <3>3. [obj[o] EXCEPT !.live = FALSE] \in Object
      BY <2>1 DEF Object
    <3> QED BY <1>4, <3>1, <3>2, <3>3 DEF OperatorEdits
  <2>3. obj' \in [Objects -> Object]
    BY <1>0, <2>2 DEF MutTypeOK
  <2> QED BY <1>0, <1>1, <1>4, <2>1, <2>3 DEF OperatorEdits, MutTypeOK, Handlers
<1>5. ASSUME NEW o \in Objects, FluxStarts(o) PROVE MutTypeOK'
  <2>1. obj[o].requested \in Nat
    BY <1>0, ObjectFields DEF MutTypeOK
  <2> QED BY <1>0, <1>1, <1>5, <2>1 DEF FluxStarts, MutTypeOK, Handlers
<1>6. ASSUME NEW o \in Objects, FluxEnds(o) PROVE MutTypeOK'
  <2>1. obj[o] \in Object /\ flux[o] \in Nat
    BY <1>0 DEF MutTypeOK
  <2>2. [obj[o] EXCEPT !.handled = IF obj[o].live THEN flux[o] ELSE obj[o].handled] \in Object
    BY <2>1 DEF Object
  <2>3. obj' \in [Objects -> Object]
    BY <1>0, <1>6, <2>2 DEF FluxEnds, MutTypeOK
  <2> QED BY <1>0, <1>1, <1>6, <2>3 DEF FluxEnds, MutTypeOK, Handlers
<1> QED BY <1>2, <1>3, <1>4, <1>5, <1>6 DEF MutInv

LEMMA MutStepInv == MutInv /\ [MutNext]_mutVars => MutInv'
<1> SUFFICES ASSUME MutInv, [MutNext]_mutVars PROVE MutInv'
  OBVIOUS
<1>1. ASSUME NEW r \in Requests, HandlerStep(r) PROVE MutInv'
  <2> USE <1>1
  <2>0. Course(r)
    BY DEF MutInv
  <2>1. CASE RejectBody(r)
    BY <2>1, RejectBodyInv
  <2>2. CASE Deny(r)
    BY <2>2, FinishInv DEF Deny, Outcomes
  <2>3. CASE Refuse(r)
    BY <2>3, FinishInv DEF Refuse, Outcomes
  <2>4. CASE Enter(r)
    BY <2>4, EnterInv
  <2>5. CASE GetFails(r)
    BY <2>0, <2>5, FinishInv DEF GetFails, Outcomes, Course
  <2>6. CASE Get(r)
    BY <2>6, GetInv
  <2>7. CASE Patch(r)
    BY <2>7, PatchInv
  <2>8. CASE PatchFails(r)
    BY <2>0, <2>8, FinishInv DEF PatchFails, Outcomes, Course
  <2>9. CASE Answer(r)
    BY <2>0, <2>9, FinishInv DEF Answer, Outcomes, Course
  <2>10. CASE AnswerLost(r)
    BY <2>0, <2>10, FinishInv DEF AnswerLost, Outcomes, Course
  <2> QED BY <2>1, <2>2, <2>3, <2>4, <2>5, <2>6, <2>7, <2>8, <2>9, <2>10 DEF HandlerStep
<1>2. CASE UNCHANGED mutVars
  <2>1. MutTypeOK'
    BY <1>2 DEF mutVars, objVars, MutInv, MutTypeOK
  <2>2. \A r \in Requests : Course(r)'
    BY <1>2, OthersInv DEF mutVars, objVars, MutInv
  <2> QED BY <2>1, <2>2 DEF MutInv
<1> QED BY <1>1, <1>2, EnvironmentInv DEF MutNext

(* The handler's course, its copies of the object and its record are       *)
(* consistent in every state.                                              *)
THEOREM MutationsInvariant == MutSpec => []MutInv
  BY MutInitInv, MutStepInv, PTL DEF MutSpec

(* No handler ever puts a value of the wrong type into an object.          *)
THEOREM MutationsTypeCorrect == MutSpec => []MutTypeOK
<1>1. MutInv => MutTypeOK
  BY DEF MutInv
<1> QED BY <1>1, MutationsInvariant, PTL

(* The audit log tells the truth (mutations.go:78-82), for any number of   *)
(* concurrent requests.                                                    *)
THEOREM MutationsAuditTruth == MutSpec => []AuditTruth
<1>1. MutInv => AuditTruth
  <2> SUFFICES ASSUME MutInv, NEW r \in Requests
               PROVE  /\ rpc[r] # "done" => audit[r] = <<>>
                      /\ rpc[r] = "done" /\ Accepted(r) => audit[r] = <<reply[r]>>
                      /\ audit[r] = <<"ok">> => r \in applied
                      /\ r \in applied => req[r].allowed
    BY DEF AuditTruth
  <2>1. Course(r)
    BY DEF MutInv
  <2>2. <<>> # <<"ok">> /\ (<<reply[r]>> = <<"ok">> => reply[r] = "ok")
    OBVIOUS
  <2> QED BY <2>1, <2>2 DEF Course
<1> QED BY <1>1, MutationsInvariant, PTL

----------------------------------------------------------------------------
(* Refinement of AtomicMutations *)

Stages == [r \in Requests |-> Progress(r)]

LEMMA AtomicInitial == MutInit => Atomic!AtomicInit
<1> SUFFICES ASSUME MutInit PROVE Atomic!AtomicInit
  OBVIOUS
<1>1. MutTypeOK
  BY MutInitInv DEF MutInv
<1>2. Stages = [r \in Requests |-> "ready"]
  BY DEF MutInit, Stages, Progress
<1> QED BY <1>1, <1>2 DEF Atomic!AtomicInit, Stages, MutInit, MutTypeOK, Object, Request,
                          Atomic!Object, Atomic!Request

(* One handler's step changes the progress of its own request only. *)
LEMMA OwnProgress ==
  ASSUME NEW r \in Requests,
         \A x \in Requests \ {r} : UNCHANGED <<rpc[x], reply[x]>> /\ (x \in applied' <=> x \in applied)
  PROVE  Stages' = [Stages EXCEPT ![r] = Progress(r)']
<1>1. \A x \in Requests \ {r} : Progress(x)' = Progress(x)
  BY DEF Progress
<1> QED BY <1>1 DEF Stages

(* What a merge patch makes of the object is an effect of the request on   *)
(* the object as it is when the patch arrives.                             *)
LEMMA MergedIsEffect ==
  ASSUME NEW r \in Requests, MutTypeOK, Wants(r), NEW x \in Object
  PROVE  /\ r \notin applied => Atomic!IsEffect(req[r], x, Merged(r, x))
         /\ r \in applied => Merged(r, x) = x
<1> DEFINE y == Merged(r, x)
<1> DEFINE b == base[r]
<1> DEFINE w == wanted[r]
<1>0. b \in Object /\ w \in Object /\ req[r] \in Request
  BY DEF MutTypeOK
<1>1. x = [live |-> x.live, suspend |-> x.suspend, version |-> x.version,
           requested |-> x.requested, forced |-> x.forced, handled |-> x.handled]
  BY DEF Object
<1>2. /\ y.live = (IF w.live # b.live THEN w.live ELSE x.live)
      /\ y.suspend = (IF w.suspend # b.suspend THEN w.suspend ELSE x.suspend)
      /\ y.version = (IF w.version # b.version THEN w.version ELSE x.version)
      /\ y.requested = (IF w.requested # b.requested THEN w.requested ELSE x.requested)
      /\ y.forced = (IF w.forced # b.forced THEN w.forced ELSE x.forced)
      /\ y.handled = (IF w.handled # b.handled THEN w.handled ELSE x.handled)
  BY MergedFields
<1>3. y = [live |-> y.live, suspend |-> y.suspend, version |-> y.version,
           requested |-> y.requested, forced |-> y.forced, handled |-> y.handled]
  BY MergedFields
<1>4. y.live = x.live /\ y.handled = x.handled
  BY <1>2 DEF Wants
<1>5. ASSUME r \in applied PROVE y = x
  <2>1. b = w
    BY <1>5 DEF Wants
  <2> QED BY <2>1, <1>1, <1>2, <1>3
<1>6. ASSUME r \notin applied PROVE Atomic!IsEffect(req[r], x, y)
  <2>0. b # w
    BY <1>6 DEF Wants
  <2>1. CASE req[r].verb \in {"suspend", "resume"}
    <3>1. w.version = b.version /\ w.forced = b.forced /\ w.requested = b.requested
          /\ w.live = b.live /\ w.handled = b.handled
      BY <2>1 DEF Wants
    <3>2. w.suspend # b.suspend
      BY <1>0, <2>0, <3>1 DEF Object
    <3>3. y.version = x.version /\ y.forced = x.forced /\ y.requested = x.requested /\ y.suspend = w.suspend
      BY <1>2, <3>1, <3>2
    <3>4. w.suspend = (req[r].verb = "suspend")
      BY <1>0, <2>1, ObjectFields DEF Wants
    <3>5. y = [x EXCEPT !.suspend = w.suspend]
      BY <1>1, <1>3, <1>4, <3>3
    <3> QED BY <2>1, <3>4, <3>5 DEF Atomic!IsEffect
  <2>2. CASE req[r].verb = "reconcile"
    <3>1. y.version = x.version /\ y.forced = x.forced /\ y.suspend = x.suspend
      BY <1>2, <2>2 DEF Wants
    <3>2. y = [x EXCEPT !.requested = y.requested]
      BY <1>1, <1>3, <1>4, <3>1
    <3> QED BY <2>2, <3>2 DEF Atomic!IsEffect
  <2>3. CASE req[r].verb = "rollback"
    <3>1. y.suspend = x.suspend /\ y.version \in {x.version, req[r].revision}
      BY <1>2, <2>3 DEF Wants
    <3>2. y = [x EXCEPT !.requested = y.requested, !.forced = y.forced, !.version = y.version]
      BY <1>1, <1>3, <1>4, <3>1
    <3> QED BY <2>3, <3>1, <3>2 DEF Atomic!IsEffect
  <2> QED BY <1>0, <2>1, <2>2, <2>3, RequestType
<1> QED BY <1>5, <1>6

(* Ending a request that was not accepted is a failure. *)
LEMMA EndsInFailure ==
  ASSUME MutInv, NEW r \in Requests, rpc[r] # "done",
         rpc' = [rpc EXCEPT ![r] = "done"],
         NEW outcome, outcome # "ok", reply' = [reply EXCEPT ![r] = outcome],
         UNCHANGED <<obj, req, edits, applied>>
  PROVE  Atomic!Fail(r)
<1>1. Stages' = [Stages EXCEPT ![r] = Progress(r)']
  BY OwnProgress DEF MutInv, MutTypeOK
<1>2. rpc'[r] = "done" /\ reply'[r] = outcome
  BY DEF MutInv, MutTypeOK
<1>3. Progress(r)' = "failed" /\ Stages[r] # "accepted"
  BY <1>2 DEF Progress, Stages
<1> QED BY <1>1, <1>3 DEF Atomic!Fail, Stages

(* Reading the object is the effect of a request that finds its change     *)
(* already made, and a stutter for any other.                              *)
LEMMA GetSimulates ==
  ASSUME MutInv, NEW r \in Requests, Get(r)
  PROVE  Atomic!Apply(r) \/ UNCHANGED Atomic!atomicVars
<1> DEFINE o == req[r].target
<1>0. MutInv' /\ MutTypeOK /\ Course(r) /\ rpc[r] = "get" /\ UNCHANGED <<obj, req, edits>>
  BY GetInv DEF MutInv, Get, Aside
<1>1. rpc'[r] = "patch" /\ base'[r] = obj[o]
  BY <1>0 DEF MutTypeOK, Get
<1>2. Wants(r)'
  BY <1>0, <1>1 DEF MutInv, Course
<1>3. req[r].allowed /\ r \notin applied /\ req[r] \in Request
  BY <1>0 DEF Course, MutTypeOK
<1>4. Stages' = [Stages EXCEPT ![r] = Progress(r)']
  BY <1>0, OwnProgress DEF MutTypeOK, Get
<1>5. Stages[r] = "called"
  BY <1>0, <1>3 DEF Stages, Progress
<1>6. CASE r \in applied'
  <2>1. Progress(r)' = "applied"
    BY <1>1, <1>6 DEF Progress
  <2>2. wanted'[r] = obj[o] /\ obj[o] \in Object
    BY <1>0, <1>1, <1>2, <1>3, <1>6, RequestType DEF Wants, MutTypeOK
  <2>3. Atomic!IsEffect(req[r], obj[o], obj[o])
    <3>1. req[r].verb = "suspend" => obj[o].suspend = TRUE
      BY <1>0, <1>2, <2>2, ObjectFields DEF Wants
    <3>2. req[r].verb = "resume" => obj[o].suspend = FALSE
      BY <1>0, <1>2, <2>2, ObjectFields DEF Wants
    <3>3. [obj[o] EXCEPT !.suspend = obj[o].suspend] = obj[o]
      BY <2>2 DEF Object
    <3>4. [obj[o] EXCEPT !.requested = obj[o].requested] = obj[o]
      BY <2>2 DEF Object
    <3>5. [obj[o] EXCEPT !.requested = obj[o].requested, !.forced = obj[o].forced, !.version = obj[o].version] = obj[o]
      BY <2>2 DEF Object
    <3> QED BY <1>3, <3>1, <3>2, <3>3, <3>4, <3>5, RequestType DEF Atomic!IsEffect
  <2>4. obj' = [obj EXCEPT ![o] = obj'[o]]
    BY <1>0 DEF MutTypeOK
  <2> QED BY <1>0, <1>3, <1>4, <1>5, <2>1, <2>3, <2>4 DEF Atomic!Apply, Stages
<1>7. CASE r \notin applied'
  <2>1. Progress(r)' = "called"
    BY <1>1, <1>7 DEF Progress
  <2>2. Stages' = Stages
    BY <1>4, <1>5, <2>1 DEF Stages
  <2> QED BY <1>0, <2>2 DEF Atomic!atomicVars, Stages
<1> QED BY <1>6, <1>7

(* Patching the object is the effect of any other request. *)
LEMMA PatchSimulates ==
  ASSUME MutInv, NEW r \in Requests, Patch(r)
  PROVE  Atomic!Apply(r) \/ UNCHANGED Atomic!atomicVars
<1> DEFINE o == req[r].target
<1>0. MutTypeOK /\ Course(r) /\ rpc[r] = "patch" /\ UNCHANGED <<req, edits>>
  BY DEF MutInv, Patch, Aside
<1>1. Wants(r) /\ req[r].allowed /\ o \in Objects /\ obj[o] \in Object
  BY <1>0, RequestType DEF Course, MutTypeOK
<1>2. Stages' = [Stages EXCEPT ![r] = Progress(r)']
  BY <1>0, OwnProgress DEF MutTypeOK, Patch
<1>3. Progress(r)' = "applied"
  BY <1>0 DEF Patch, Progress, MutTypeOK
<1>4. obj' = [obj EXCEPT ![o] = Merged(r, obj[o])] /\ obj'[o] = Merged(r, obj[o])
  BY <1>0, <1>1 DEF Patch, MutTypeOK
<1>5. CASE r \notin applied
  <2>1. Stages[r] = "called"
    BY <1>0, <1>5 DEF Stages, Progress
  <2>2. Atomic!IsEffect(req[r], obj[o], obj'[o])
    BY <1>0, <1>1, <1>4, <1>5, MergedIsEffect
  <2>3. obj' = [obj EXCEPT ![o] = obj'[o]]
    BY <1>4
  <2> QED BY <1>0, <1>1, <1>2, <1>3, <2>1, <2>2, <2>3 DEF Atomic!Apply, Stages
<1>6. CASE r \in applied
  <2>1. Stages[r] = "applied"
    BY <1>0, <1>6 DEF Stages, Progress
  <2>2. Stages' = Stages
    BY <1>2, <1>3, <2>1 DEF Stages
  <2>3. obj' = obj
    <3>1. obj' = [obj EXCEPT ![o] = obj[o]]
      BY <1>0, <1>1, <1>4, <1>6, MergedIsEffect
    <3> QED BY <1>0, <3>1 DEF MutTypeOK
  <2> QED BY <1>0, <2>2, <2>3 DEF Atomic!atomicVars, Stages
<1> QED BY <1>5, <1>6

LEMMA HandlerSimulates ==
  ASSUME MutInv, NEW r \in Requests, HandlerStep(r)
  PROVE  Atomic!AtomicNext \/ UNCHANGED Atomic!atomicVars
<1>0. MutTypeOK /\ Course(r)
  BY DEF MutInv
<1>1. CASE RejectBody(r)
  <2>1. Atomic!Fail(r)
    BY <1>1, EndsInFailure DEF RejectBody, Aside
  <2> QED BY <2>1 DEF Atomic!AtomicNext
<1>2. CASE Deny(r) \/ Refuse(r) \/ GetFails(r) \/ PatchFails(r) \/ AnswerLost(r)
  <2>1. Atomic!Fail(r)
    BY <1>2, EndsInFailure DEF Deny, Refuse, GetFails, PatchFails, AnswerLost, Finish, Aside
  <2> QED BY <2>1 DEF Atomic!AtomicNext
<1>3. CASE Enter(r)
  <2>1. Stages' = [Stages EXCEPT ![r] = Progress(r)']
    BY <1>0, <1>3, OwnProgress DEF MutTypeOK, Enter
  <2>2. Stages[r] = "ready" /\ Progress(r)' = "called"
    BY <1>0, <1>3 DEF Enter, Course, Stages, Progress, MutTypeOK
  <2>3. Atomic!Call(r)
    BY <1>3, <2>1, <2>2 DEF Atomic!Call, Stages, Enter, Aside
  <2> QED BY <2>3 DEF Atomic!AtomicNext
<1>4. CASE Get(r)
  BY <1>4, GetSimulates DEF Atomic!AtomicNext
<1>5. CASE Patch(r)
  BY <1>5, PatchSimulates DEF Atomic!AtomicNext
<1>6. CASE Answer(r)
  <2>1. Stages' = [Stages EXCEPT ![r] = Progress(r)']
    BY <1>0, <1>6, OwnProgress DEF MutTypeOK, Answer, Finish
  <2>2. rpc[r] = "answer" /\ rpc'[r] = "done" /\ reply'[r] = "ok" /\ r \in applied
    BY <1>0, <1>6 DEF Answer, Finish, Course, MutTypeOK
  <2>3. Stages[r] = "applied" /\ Progress(r)' = "accepted"
    BY <2>2 DEF Stages, Progress
  <2>4. Atomic!Accept(r)
    BY <1>6, <2>1, <2>3 DEF Atomic!Accept, Stages, Answer, Aside
  <2> QED BY <2>4 DEF Atomic!AtomicNext
<1> QED BY <1>1, <1>2, <1>3, <1>4, <1>5, <1>6 DEF HandlerStep

LEMMA EnvironmentSimulates ==
  ASSUME MutInv, MutInv',
         EntryChanges \/ \E o \in Objects : OperatorEdits(o) \/ FluxStarts(o) \/ FluxEnds(o)
  PROVE  Atomic!AtomicNext \/ UNCHANGED Atomic!atomicVars
<1>1. Handlers
  BY DEF EntryChanges, OperatorEdits, FluxStarts, FluxEnds
<1>2. Stages' = Stages /\ req' = req
  BY <1>1 DEF Handlers, Stages, Progress
<1>3. CASE EntryChanges \/ \E o \in Objects : FluxStarts(o)
  BY <1>2, <1>3 DEF EntryChanges, FluxStarts, Atomic!atomicVars, Stages
<1>4. ASSUME NEW o \in Objects, OperatorEdits(o) PROVE Atomic!Edit
  <2>1. obj' \in [Objects -> Object] /\ edits' = edits + 1
    BY <1>4 DEF MutInv, MutTypeOK, OperatorEdits
  <2> QED BY <1>2, <2>1 DEF Atomic!Edit, Atomic!Object, Object, Stages
<1>5. ASSUME NEW o \in Objects, FluxEnds(o) PROVE Atomic!Handle(o)
  <2>1. PICK h : obj' = [obj EXCEPT ![o].handled = h]
    BY <1>5 DEF FluxEnds
  <2>2. obj \in [Objects -> Object]
    BY DEF MutInv, MutTypeOK
  <2>3. obj'[o].handled = h
    BY <2>1, <2>2 DEF Object
  <2>4. obj' = [obj EXCEPT ![o].handled = obj'[o].handled]
    BY <2>1, <2>3
  <2> QED BY <1>2, <1>5, <2>4 DEF Atomic!Handle, FluxEnds, Stages
<1> QED BY <1>3, <1>4, <1>5 DEF Atomic!AtomicNext

(* Every request takes effect atomically, between its arrival and its      *)
(* answer, on the object as it is then, whatever operators, Flux and other *)
(* requests write to it (getApp .. Patch, mutations.go:200-214).           *)
THEOREM MutationsAtomic == MutSpec => ImplementsAtomic
<1>1. MutInv /\ MutInv' /\ [MutNext]_mutVars => [Atomic!AtomicNext]_(Atomic!atomicVars)
  <2> SUFFICES ASSUME MutInv, MutInv', [MutNext]_mutVars
               PROVE  Atomic!AtomicNext \/ UNCHANGED Atomic!atomicVars
    OBVIOUS
  <2>1. CASE UNCHANGED mutVars
    BY <2>1 DEF mutVars, objVars, Atomic!atomicVars, Progress
  <2> QED BY <2>1, HandlerSimulates, EnvironmentSimulates DEF MutNext
<1> QED BY <1>1, AtomicInitial, MutationsInvariant, PTL DEF MutSpec, ImplementsAtomic, Atomic!AtomicSpec

=============================================================================
