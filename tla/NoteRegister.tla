---------------------------- MODULE NoteRegister ----------------------------
(***************************************************************************)
(* What the revision of a note promises to those who read it and write it  *)
(* later, whatever a revision is made of: a read links its reader to the   *)
(* note, any change of the note breaks the link for good, and only a       *)
(* linked reader's write succeeds.  So the text it replaces is the text it *)
(* has read, and no other writer came in between.                          *)
(*                                                                         *)
(* Versions of a note can become indistinguishable (blurred); then only    *)
(* the readers in Exact keep the promise.                                  *)
(***************************************************************************)
CONSTANTS
    Paths,
    Readers, \* those who write back what they have read
    Exact,   \* readers whose notes nobody else writes meanwhile
    Gone     \* no text

VARIABLES
    text,    \* text[p]: the text of note p, or Gone
    view,    \* view[r]: the note that r has read and the text it had
    linked,  \* readers whose note has not changed since
    blurred  \* notes of which two versions look alike

rvars == <<text, view, linked, blurred>>

Unread == <<Gone, Gone>>

Init ==
    /\ view = [r \in Readers |-> Unread]
    /\ linked = {} /\ blurred = {}

Load(r, p) ==
    /\ text[p] # Gone
    /\ view' = [view EXCEPT ![r] = <<p, text[p]>>]
    /\ linked' = linked \cup {r}
    /\ UNCHANGED <<text, blurred>>

Forget(r) ==
    /\ view' = [view EXCEPT ![r] = Unread]
    /\ linked' = linked \ {r}
    /\ UNCHANGED <<text, blurred>>

Blurs(r, B) == r \notin Exact /\ view[r][1] \in B

\* A link that is there after a step was there before it, and the note is the same.
LinksOnlyBreak ==
    /\ blurred \subseteq blurred'
    /\ \A r \in linked' :
          \/ r \in linked /\ text'[view[r][1]] = text[view[r][1]]
          \/ Blurs(r, blurred')

Store(r) ==
    LET p == view[r][1] IN
    /\ r \in linked
    /\ text[p] = view[r][2] \/ Blurs(r, blurred)
    /\ text'[p] # Gone /\ \A q \in Paths \ {p} : text'[q] = text[q]
    /\ view' = [view EXCEPT ![r] = Unread]
    /\ r \notin linked' /\ LinksOnlyBreak

\* Everybody else may write, move and delete as they like.
Change == UNCHANGED view /\ LinksOnlyBreak

Next ==
    \/ Change
    \/ \E r \in Readers : Forget(r) \/ Store(r) \/ \E p \in Paths : Load(r, p)

Spec == Init /\ [][Next]_rvars
=============================================================================
