------------------------------ MODULE Rewrite ------------------------------
(***************************************************************************)
(* What Fix promises: checks ask for edits; if all of them complete, each  *)
(* file is rewritten at most once, to what a choice among the edits asked  *)
(* for makes of it at once, or printed that way.  A failure stops the      *)
(* rewriting where it is.                                                  *)
(***************************************************************************)
EXTENDS Edits

CONSTANT File

VARIABLES
  toWriter,  \* the results are printed, the files stay
  phase,     \* "checks", "files" or "over"
  wanted,    \* the edits asked for in each file
  disk,      \* the text of each file
  printed,   \* what was printed
  fixed      \* the files that were rewritten or printed

vars == <<toWriter, phase, wanted, disk, printed, fixed>>

Init ==
  /\ toWriter \in BOOLEAN
  /\ phase = "checks"
  /\ wanted = [f \in File |-> {}]
  /\ disk \in [File -> Text]
  /\ printed = <<>>
  /\ fixed = {}

\* Checks go on asking when another one has failed.
Collect ==
  /\ phase # "files"
  /\ wanted' \in [File -> SUBSET Edit]
  /\ \A f \in File : wanted[f] \subseteq wanted'[f]
  /\ UNCHANGED <<toWriter, phase, disk, printed, fixed>>

AllComplete ==
  /\ phase = "checks"
  /\ phase' = "files"
  /\ UNCHANGED <<toWriter, wanted, disk, printed, fixed>>

Deliver(f, text) ==
  /\ disk' = IF toWriter THEN disk ELSE [disk EXCEPT ![f] = text]
  /\ printed' = IF toWriter THEN printed \o text ELSE printed

Rewrite(f) ==
  /\ phase = "files" /\ f \notin fixed /\ wanted[f] # {}
  /\ \E text \in Results(wanted[f], disk[f]) : Deliver(f, text)
  /\ fixed' = fixed \cup {f}
  /\ UNCHANGED <<toWriter, phase, wanted>>

\* Writing may fail halfway.
Damage(f) ==
  /\ phase = "files" /\ f \notin fixed /\ wanted[f] # {}
  /\ \E text \in Results(wanted[f], disk[f]) : \E part \in Prefixes(text) : Deliver(f, part)
  /\ phase' = "over"
  /\ UNCHANGED <<toWriter, wanted, fixed>>

\* A file that needs no fix is printed as it is.
Echo(f) ==
  /\ phase = "files" /\ toWriter /\ \A g \in File : wanted[g] = {}
  /\ \E text \in Prefixes(disk[f]) : Deliver(f, text)
  /\ phase' = "over"
  /\ UNCHANGED <<toWriter, wanted, fixed>>

End ==
  /\ phase' = "over"
  /\ UNCHANGED <<toWriter, wanted, disk, printed, fixed>>

Next ==
  \/ Collect \/ AllComplete \/ End
  \/ \E f \in File : Rewrite(f) \/ Damage(f) \/ Echo(f)

Spec == Init /\ [][Next]_vars
=============================================================================
