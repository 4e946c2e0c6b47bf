-------------------------- MODULE AtomicMutations --------------------------
(***************************************************************************)
(* What the mutation endpoints promise about a Flux object: whatever else  *)
(* happens to it, a request has its whole effect on the object in one      *)
(* step between its arrival and its answer, an accepted request has had    *)
(* it, and nothing but the fields the request is about changes.  A request *)
(* answered with an error may or may not have had its effect; one the      *)
(* policy does not allow has none.                                         *)
(*                                                                         *)
(* A rollback is weaker: the version may stay what it is, because an       *)
(* object that already asked for the version when it was read is only      *)
(* annotated (see Mutations).                                              *)
(***************************************************************************)
EXTENDS Naturals

CONSTANTS Requests, Objects, Versions, Unpinned, NoRevision

VARIABLES
  obj,    \* obj[o]: the object in the cluster
  req,    \* req[r]: what request r asks for
  st,     \* st[r]: how far request r is
  edits   \* number of writes by operators and Git

atomicVars == <<obj, req, st, edits>>

Object == [live : BOOLEAN, suspend : BOOLEAN, version : Versions \union {Unpinned},
           requested : Nat, forced : Nat, handled : Nat]

Request ==
  [verb : {"reconcile", "suspend", "resume"}, target : Objects, revision : {NoRevision}, allowed : BOOLEAN]
  \union
  [verb : {"rollback"}, target : Objects, revision : Versions \union {NoRevision}, allowed : BOOLEAN]

(* y is a possible result of request q on an object that reads x *)
IsEffect(q, x, y) ==
  \/ q.verb = "suspend"   /\ y = [x EXCEPT !.suspend = TRUE]
  \/ q.verb = "resume"    /\ y = [x EXCEPT !.suspend = FALSE]
  \/ q.verb = "reconcile" /\ y = [x EXCEPT !.requested = y.requested]
  \/ /\ q.verb = "rollback"
     /\ y = [x EXCEPT !.requested = y.requested, !.forced = y.forced, !.version = y.version]
     /\ y.version \in {x.version, q.revision}

Call(r) ==
  /\ st[r] = "ready"
  /\ st' = [st EXCEPT ![r] = "called"]
  /\ UNCHANGED <<obj, req, edits>>

Apply(r) ==
  LET o == req[r].target IN
  /\ st[r] = "called"
  /\ req[r].allowed
  /\ st' = [st EXCEPT ![r] = "applied"]
  /\ IsEffect(req[r], obj[o], obj'[o])
  /\ obj' = [obj EXCEPT ![o] = obj'[o]]
  /\ UNCHANGED <<req, edits>>

Accept(r) ==
  /\ st[r] = "applied"
  /\ st' = [st EXCEPT ![r] = "accepted"]
  /\ UNCHANGED <<obj, req, edits>>

Fail(r) ==
  /\ st[r] # "accepted"
  /\ st' = [st EXCEPT ![r] = "failed"]
  /\ UNCHANGED <<obj, req, edits>>

(* An operator, or Git through Flux, writes the objects. *)
Edit ==
  /\ edits' = edits + 1
  /\ obj' \in [Objects -> Object]
  /\ UNCHANGED <<req, st>>

(* A Flux controller reports which request it has handled. *)
Handle(o) ==
  /\ obj' = [obj EXCEPT ![o].handled = obj'[o].handled]
  /\ UNCHANGED <<req, st, edits>>

AtomicInit ==
  /\ obj \in [Objects -> Object]
  /\ req \in [Requests -> Request]
  /\ st = [r \in Requests |-> "ready"]
  /\ edits = 0

AtomicNext ==
  \/ \E r \in Requests : Call(r) \/ Apply(r) \/ Accept(r) \/ Fail(r)
  \/ Edit
  \/ \E o \in Objects : Handle(o)

AtomicSpec == AtomicInit /\ [][AtomicNext]_atomicVars
=============================================================================
