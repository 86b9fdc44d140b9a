---------------------------- MODULE AtomicHistory ----------------------------
(***************************************************************************)
(* What the event history promises to the players of a game: a board on    *)
(* which every request takes effect at once or not at all.  An ID names    *)
(* one event and is never used again; the event keeps its owner and its    *)
(* type; making it private or public, or rerolling it, is one step in      *)
(* which it is never absent.  Only where requests may fail may one that    *)
(* moves an event lose it.                                                 *)
(***************************************************************************)
CONSTANT MayFail    \* TRUE: requests may fail

VARIABLES
    board,      \* the events of the game
    removed     \* the IDs of the events that were deleted or rerolled

Ids == {e.id : e \in board}

Fresh(i) == i \notin Ids \cup removed

Create(e) ==
    /\ Fresh(e.id)
    /\ e.ty \notin {"playerJoin", "rerollFailures"}
    /\ e.edit = 0
    /\ board' = board \cup {e}
    /\ UNCHANGED removed

Remove(e) ==
    /\ e.ty # "playerJoin"
    /\ board' = board \ {e}
    /\ removed' = removed \cup {e.id}

\* A request has failed between taking the event and putting it back.
Lose(e) ==
    /\ MayFail
    /\ e.ty # "playerJoin"
    /\ board' = board \ {e}
    /\ UNCHANGED removed

\* Changing everything but what an event is and whose it is.
Edit(e, f) ==
    /\ e.ty # "playerJoin"
    /\ f.id = e.id /\ f.ty = e.ty /\ f.owner = e.owner
    /\ f.share = e.share /\ f.prev = e.prev
    /\ board' = (board \ {e}) \cup {f}
    /\ UNCHANGED removed

Reshare(e, s) ==
    /\ e.ty # "playerJoin"
    /\ board' = (board \ {e}) \cup {[e EXCEPT !.share = s]}
    /\ UNCHANGED removed

\* The reroll takes the place of the roll.
Reroll(e, f) ==
    /\ e.ty = "roll"
    /\ f.ty = "rerollFailures" /\ f.prev = e.id
    /\ f.share = e.share /\ f.title = e.title
    /\ Fresh(f.id)
    /\ board' = (board \ {e}) \cup {f}
    /\ removed' = removed \cup {e.id}

Init ==
    /\ \A e \in board : e.ty = "playerJoin"
    /\ removed = {}

\* What a step adds is looked for in board', so that the board may hold any
\* events whatever.
Next ==
    \/ \E e \in board' : Create(e)
    \/ \E e \in board : Remove(e) \/ Lose(e)
    \/ \E e \in board, f \in board' : Edit(e, f)
    \/ \E e \in board, s \in {"inGame", "private"} : Reshare(e, s)
    \/ \E e \in board, f \in board' : Reroll(e, f)

Spec == Init /\ [][Next]_<<board, removed>>
=============================================================================
