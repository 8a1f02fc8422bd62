----------------------------- MODULE UploadGate -----------------------------
(***************************************************************************)
(* What the content script promises the user of a protected page: a file   *)
(* the user chose for an input of the document is out of the page's reach  *)
(* until it has been decided; it becomes visible only because the latest   *)
(* choice made there was allowed; a blocked choice is never released, nor  *)
(* is any once the guard is gone.                                          *)
(*                                                                         *)
(* It promises nothing of a choice made while the input is outside the     *)
(* document.  An event lost there leaves a stray: one later choice at the  *)
(* input may be taken for its second half, and escape as well.             *)
(***************************************************************************)
CONSTANTS Input, File, NoFile

VARIABLES
  open,      \* the guard is installed
  choice,    \* the latest choice at each input: its file and what became of it
  visible,   \* the file the page finds in each input
  present,   \* whether each input is in the document
  strays     \* the inputs where an event of the latest choice was lost

NoChoice == [file |-> NoFile, state |-> "none"]
Pending(file) == [file |-> file, state |-> "pending"]

Init ==
  /\ open = TRUE
  /\ choice = [i \in Input |-> NoChoice]
  /\ visible = [i \in Input |-> NoFile]
  /\ present \in [Input -> BOOLEAN] /\ strays = {}

Choose(i, file) ==
  /\ open
  /\ choice' = [choice EXCEPT ![i] = Pending(file)]
  /\ visible' = [visible EXCEPT ![i] = NoFile]
  /\ strays' = strays \ {i}
  /\ UNCHANGED <<open, present>>

Refuse(i) ==
  /\ open /\ choice[i].state = "pending"
  /\ choice' = [choice EXCEPT ![i].state = "blocked"]
  /\ UNCHANGED <<open, visible, present, strays>>

\* The file is given back, unless the input can no longer take it.
Permit(i) ==
  /\ open /\ choice[i].state = "pending"
  /\ choice' = [choice EXCEPT ![i].state = "allowed"]
  /\ visible' \in {visible, [visible EXCEPT ![i] = choice[i].file]}
  /\ UNCHANGED <<open, present, strays>>

\* The page empties the input, or moves it into or out of the document.
Empty(i) == visible' = [visible EXCEPT ![i] = NoFile] /\ UNCHANGED <<open, choice, present, strays>>
Move(i) == present' = [present EXCEPT ![i] = ~@] /\ UNCHANGED <<open, choice, visible, strays>>

\* An event at an input outside the document is lost, with the user's choice or without.
Lose(i) ==
  /\ open /\ ~present[i]
  /\ visible' \in {visible} \cup {[visible EXCEPT ![i] = file] : file \in File}
  /\ strays' \in {strays \ {i}, strays \cup {i}}
  /\ UNCHANGED <<open, choice, present>>

\* A choice is taken for the second half of an earlier one.
Mistake(i) ==
  /\ open /\ i \in strays
  /\ \E file \in File : visible' = [visible EXCEPT ![i] = file]
  /\ strays' = strays \ {i}
  /\ UNCHANGED <<open, choice, present>>

\* The guard is removed and forgets the choices, the pending ones too.
Close ==
  /\ open /\ open' = FALSE
  /\ choice' = [i \in Input |-> NoChoice] /\ strays' = {}
  /\ UNCHANGED <<visible, present>>

Next ==
  \/ \E i \in Input : \/ \E file \in File : Choose(i, file)
                      \/ Refuse(i)
                      \/ Permit(i)
                      \/ Empty(i) \/ Move(i)
                      \/ Lose(i) \/ Mistake(i)
  \/ Close

Spec == Init /\ [][Next]_<<open, choice, visible, present, strays>>
=============================================================================
