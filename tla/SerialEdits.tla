----------------------------- MODULE SerialEdits ----------------------------
(***************************************************************************)
(* What the replace tool promises about files that several calls edit at   *)
(* once: an edit is made to the text that the file has, one edit of a      *)
(* file at a time, so that no edit undoes another; and a call reports a    *)
(* file as replaced exactly when it was.  Whoever else writes the files    *)
(* is not bound by this; and an edit that is not direct, because the path  *)
(* of the call leads to another name than it did when the call began, is   *)
(* not kept apart from the others.                                         *)
(***************************************************************************)
EXTENDS Naturals, Sequences

CONSTANTS
    Names,      \* file names
    Calls,      \* calls of the replace tool
    None

VARIABLES
    text,       \* text[n]: what file n holds, or None
    keeps,      \* keeps[c]: the call replaces every match by itself
    editing,    \* editing[c]: the file and the text that c is about to edit
    replaced    \* replaced[c]: how many files c reports as replaced

vars == <<text, keeps, editing, replaced>>

(* A text remembers who wrote it, and how many matches are in it.          *)
Edited(c, base) == [marks |-> Append(base.marks, c), matches |-> 0]

Init ==
    /\ text \in [Names -> {None} \cup [marks : {<<>>}, matches : 0..2]]
    /\ keeps = [c \in Calls |-> FALSE]
    /\ editing = [c \in Calls |-> None]
    /\ replaced = [c \in Calls |-> 0]

Choose(c) ==
    /\ keeps' \in {keeps, [keeps EXCEPT ![c] = TRUE]}
    /\ keeps' # keeps
    /\ UNCHANGED <<text, editing, replaced>>

Begin(c, n, direct) ==
    /\ editing[c] = None /\ text[n] # None
    /\ \A d \in Calls :
          \/ editing[d] = None \/ editing[d].name # n
          \/ ~(direct /\ editing[d].direct)
    /\ editing' = [editing EXCEPT ![c] =
                      [name |-> n, base |-> text[n], direct |-> direct]]
    /\ UNCHANGED <<text, keeps, replaced>>

Finish(c) ==
    /\ editing[c] # None
    /\ text' = [text EXCEPT ![editing[c].name] = Edited(c, editing[c].base)]
    /\ editing' = [editing EXCEPT ![c] = None]
    /\ replaced' = [replaced EXCEPT ![c] = @ + 1]
    /\ UNCHANGED keeps

Abandon(c) ==
    /\ editing' = [editing EXCEPT ![c] = None]
    /\ UNCHANGED <<text, keeps, replaced>>

(* A replacement that changes no byte.                                     *)
ReplaceByItself(c) ==
    /\ keeps[c]
    /\ replaced' = [replaced EXCEPT ![c] = @ + 1]
    /\ UNCHANGED <<text, keeps, editing>>

(* Somebody else saves, moves, links or removes files.                     *)
Others ==
    /\ \A n \in Names :
          \/ text'[n] = None \/ \E m \in Names : text'[n] = text[m]
          \/ text'[n].marks[Len(text'[n].marks)] \notin Calls
    /\ UNCHANGED <<keeps, editing, replaced>>

Next ==
    \/ Others
    \/ \E c \in Calls :
          \/ Choose(c) \/ Finish(c) \/ Abandon(c) \/ ReplaceByItself(c)
          \/ \E n \in Names, direct \in BOOLEAN : Begin(c, n, direct)

Spec == Init /\ [][Next]_vars
=============================================================================
