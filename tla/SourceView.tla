----------------------------- MODULE SourceView -----------------------------
(***************************************************************************)
(* The contract of the event store towards a consumer that mirrors it:     *)
(* what the current projection of a source (read_session, pull) may do     *)
(* between two records of the change-feed (read_projection_changes).       *)
(*                                                                         *)
(* While a source's version stands still its view only grows, so reading   *)
(* new rows by offset is enough; a view is replaced only together with a   *)
(* change-feed record, on which the consumer rebuilds its copy; and        *)
(* nothing that was erased is ever shown again.                            *)
(***************************************************************************)
EXTENDS Naturals

CONSTANTS
  Source,
  Event,
  Hit(_, _, _)     \* Hit(t, s, e): tombstone t covers event e of source s

VARIABLES
  view,            \* view[s]: the events a reader of s is shown
  version,         \* version[s]: change-feed records about s so far
  forgotten        \* tombstones

vars == <<view, version, forgotten>>

Forgotten(s, e) == \E t \in forgotten : Hit(t, s, e)

Init ==
  /\ view = [s \in Source |-> {}]
  /\ version = [s \in Source |-> 0]
  /\ forgotten = {}

(* Only s changes; whatever is new in its view may be shown.               *)
Touches(s) ==
  /\ view'[s] \subseteq Event
  /\ \A e \in view'[s] \ view[s] : ~Forgotten(s, e)
  /\ \A x \in Source \ {s} : view'[x] = view[x]
  /\ UNCHANGED forgotten

(* An Append that was committed.                                           *)
Extend(s) ==
  /\ Touches(s)
  /\ view[s] \subseteq view'[s]
  /\ UNCHANGED version

(* A Rollback, a Reparse or a rewrite that was committed.                  *)
Replace(s) ==
  /\ Touches(s)
  /\ version' = [version EXCEPT ![s] = @ + 1]

(* An erasure: exactly what the new tombstones hit disappears.             *)
Forget ==
  /\ forgotten \subseteq forgotten'
  /\ view' = [s \in Source |-> {e \in view[s] : ~\E t \in forgotten' : Hit(t, s, e)}]
  /\ UNCHANGED version

Next ==
  \/ \E s \in Source : Extend(s) \/ Replace(s)
  \/ Forget

Spec == Init /\ [][Next]_vars
=============================================================================
