---------------------------- MODULE ReadContract ----------------------------
(***************************************************************************)
(* What the pipeline takes for granted of one reading of a payload, and    *)
(* Worker builds on: rows are saved in order, a chunk at a time, and only  *)
(* sound ones; `completed` means all of them; a payload is refused for     *)
(* good only if something is wrong with it; and a reading may be           *)
(* interrupted at any time, also after a chunk went in.                    *)
(***************************************************************************)
EXTENDS Integers, Sequences

CONSTANT BatchSize

VARIABLES readable,   \* whether the payload as a whole can be read
          sound,      \* for each row, whether it can be stored
          saved,      \* how many rows are in the table
          verdict

vars == <<readable, sound, saved, verdict>>

Init ==
  /\ readable \in BOOLEAN
  /\ sound \in Seq(BOOLEAN)
  /\ saved = 0
  /\ verdict = "open"

SaveChunk ==
  /\ readable
  /\ saved < Len(sound)
  /\ saved' = IF saved + BatchSize < Len(sound) THEN saved + BatchSize ELSE Len(sound)
  /\ \A i \in 1 .. saved' : sound[i]

Progress == SaveChunk /\ UNCHANGED verdict

Complete ==
  /\ readable
  /\ saved = Len(sound)
  /\ verdict' = "completed"
  /\ UNCHANGED saved

Refuse ==
  /\ ~readable \/ \E i \in DOMAIN sound : ~sound[i]
  /\ verdict' = "failed"
  /\ UNCHANGED saved

Interrupt ==
  /\ verdict' = "retry"
  /\ SaveChunk \/ UNCHANGED saved

Next ==
  /\ verdict = "open"
  /\ Progress \/ Complete \/ Refuse \/ Interrupt
  /\ UNCHANGED <<readable, sound>>

Spec == Init /\ [][Next]_vars

=============================================================================
