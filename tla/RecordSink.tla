----------------------------- MODULE RecordSink -----------------------------
(***************************************************************************)
(* What the capture path promises for the record of a finished request:    *)
(* it ends up stored, or it is counted as dropped; a body that is given up *)
(* is counted too; only the end of the process may lose a record silently. *)
(***************************************************************************)
CONSTANT Writes

VARIABLES
  stored,    \* records in the store
  whole,     \* records stored with everything they came with
  lost,      \* records that never will be
  counted,   \* records for which a drop was counted at least once
  stopped    \* the process is ending

vars == <<stored, whole, lost, counted, stopped>>

Init ==
  /\ stored = {} /\ whole = {} /\ lost = {} /\ counted = {}
  /\ stopped = FALSE

Open == Writes \ (stored \cup lost)

\* The body is given up, the metadata may still be stored.
GiveUpBody(w) ==
  /\ w \in Open
  /\ counted' = counted \cup {w}
  /\ UNCHANGED <<stored, whole, lost, stopped>>

\* Stored whole, or without its body when that has been counted.  The store's
\* answer may get lost, in which case a stored record is counted as well.
Store(w) ==
  /\ w \in Open /\ ~stopped
  /\ stored' = stored \cup {w}
  /\ whole' = whole \cup {w} \/ (w \in counted /\ whole' = whole)
  /\ counted' \in {counted, counted \cup {w}}
  /\ UNCHANGED <<lost, stopped>>

\* Lost, and counted.
Lose(w) ==
  /\ w \in Open
  /\ lost' = lost \cup {w}
  /\ counted' = counted \cup {w}
  /\ UNCHANGED <<stored, whole, stopped>>

\* The process ends: records on their way are lost, a store under way may
\* have been completed.
Stop ==
  /\ ~stopped /\ stopped' = TRUE
  /\ \E gone \in SUBSET Open, kept \in SUBSET Open :
       /\ gone \cap kept = {}
       /\ lost' = lost \cup gone
       /\ stored' = stored \cup kept
       /\ \E complete \in SUBSET kept :
            /\ kept \ complete \subseteq counted
            /\ whole' = whole \cup complete
  /\ UNCHANGED counted

Next == Stop \/ \E w \in Writes : GiveUpBody(w) \/ Store(w) \/ Lose(w)

Spec == Init /\ [][Next]_vars
=============================================================================
