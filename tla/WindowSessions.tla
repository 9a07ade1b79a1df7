--------------------------- MODULE WindowSessions ---------------------------
(***************************************************************************)
(* Which window answers for a terminal session: windows/WindowManager.ts,  *)
(* the closing of windows in index.ts, and the moving of tabs between the  *)
(* renderers (useTabTransfer, liveSessions, TerminalView).  A session      *)
(* stands for the tab that shows it.  The main process and each renderer   *)
(* take turns; what one sends the other arrives in a step of its own, and  *)
(* in the order it was sent.                                               *)
(* Closing the main window quits the application and is not modelled.      *)
(***************************************************************************)
EXTENDS Integers, FiniteSets

CONSTANTS
  Windows,  \* window ids, those of windows not opened yet among them
  Main,     \* the main window
  Sessions, \* session ids
  MaxMoves, \* bound: tabs moved
  MaxAsks,  \* bound: closing prompts shown at a time
  NoWindow

ASSUME MainIsAWindow == Main \in Windows
ASSUME NoWindowIsNone == NoWindow \notin Windows
ASSUME BoundsAssumption == MaxMoves \in Nat /\ MaxAsks \in Nat

(* Of a session: not asked for, being created, running, over. *)
Lives == {"new", "creating", "alive", "ended"}

(* Of a session in a window: no pane, a pane that waits for its session, a  *)
(* pane that shows it, one whose tab is closed before the session came, one *)
(* whose move the main process accepted, and one whose move it refused,     *)
(* while the answer is on its way.                                          *)
Panes == {"none", "opening", "shown", "disposed", "leaving", "refused"}

(* A closing prompt: the window to close, the sessions it had when the user *)
(* was asked, and the window that shows the question.                       *)
Prompts == [win : Windows, ids : SUBSET Sessions, at : Windows]

VARIABLES
  opened,    \* windows that were opened; an id is not used again
  open,      \* WindowManager.windows
  owner,     \* WindowManager.sessionOwner
  reserved,  \* WindowManager.reserved
  timers,    \* the timers of reservations, by session and target
  coming,    \* tabs on their way to a window: the handoffs, and adopt messages
  pane,
  alive,
  asks,      \* pendingQuitConfirms
  confirmed, \* closeConfirmed
  moves

(* What the properties need to know of the past. *)
VARIABLES
  astray,    \* sessions that no window came to answer for
  split      \* sessions whose tab was handed out twice

winVars == <<opened, open>>
closeVars == <<asks, confirmed>>
vars == <<winVars, owner, reserved, timers, coming, pane, alive, closeVars, moves, astray, split>>

TypeOK ==
  /\ opened \in SUBSET Windows /\ open \in SUBSET opened
  /\ Main \in open
  /\ owner \in [Sessions -> Windows \cup {NoWindow}]
  /\ reserved \in [Sessions -> Windows \cup {NoWindow}]
  /\ timers \in [Sessions -> [Windows -> Nat]]
  /\ coming \in SUBSET (open \X Sessions)
  /\ pane \in [Windows -> [Sessions -> Panes]]
  /\ alive \in [Sessions -> Lives]
  /\ asks \in SUBSET Prompts
  /\ confirmed \in SUBSET open
  /\ moves \in 0 .. MaxMoves
  /\ astray \in SUBSET Sessions /\ split \in SUBSET Sessions

Init ==
  /\ opened = {Main} /\ open = {Main}
  /\ owner = [s \in Sessions |-> NoWindow] /\ reserved = owner
  /\ timers = [s \in Sessions |-> [w \in Windows |-> 0]]
  /\ coming = {}
  /\ pane = [w \in Windows |-> [s \in Sessions |-> "none"]]
  /\ alive = [s \in Sessions |-> "new"]
  /\ asks = {} /\ confirmed = {} /\ moves = 0
  /\ astray = {} /\ split = {}

-----------------------------------------------------------------------------
(* WindowManager. *)

Paned(w, s, p) == pane' = [pane EXCEPT ![w][s] = p]

(* assign(), for a window that is registered *)
Assign(s, w) ==
  /\ owner' = [owner EXCEPT ![s] = w]
  /\ reserved' = [reserved EXCEPT ![s] = NoWindow]

\* A mutant: the owner answers for a session until another window claims it.
SessionsOfOwner(w) == {s \in Sessions : owner[s] = w \/ reserved[s] = w}

\* A mutant: a session on its way is nobody's.
SessionsOfSettled(w) == {s \in Sessions : owner[s] = w /\ reserved[s] \in {w, NoWindow}}

(* sessionsOf() *)
SessionsOf(w) ==
  {s \in Sessions : reserved[s] = w \/ (owner[s] = w /\ reserved[s] = NoWindow)}

(* reserve(): its timer runs whatever becomes of the reservation. *)
Reserve(s, w) ==
  /\ reserved' = [reserved EXCEPT ![s] = w]
  /\ timers' = [timers EXCEPT ![s][w] = @ + 1]

Answered(s) == \E w \in open : s \in SessionsOf(w)

(* 30 seconds after a reservation.  An owner that closed meanwhile does not *)
(* come back.                                                               *)
Lapse(s, w) ==
  /\ timers[s][w] > 0
  /\ timers' = [timers EXCEPT ![s][w] = @ - 1]
  /\ reserved' = IF reserved[s] = w THEN [reserved EXCEPT ![s] = NoWindow] ELSE reserved
  /\ astray' = IF reserved[s] = w /\ owner[s] \notin open /\ alive[s] = "alive"
               THEN astray \cup {s} ELSE astray
  /\ UNCHANGED <<winVars, owner, coming, pane, alive, closeVars, moves, split>>

-----------------------------------------------------------------------------
(* Sessions. *)

(* A tab is opened, and asks for its session. *)
StartSession(w, s) ==
  /\ w \in open /\ alive[s] = "new"
  /\ alive' = [alive EXCEPT ![s] = "creating"]
  /\ Paned(w, s, "opening")
  /\ UNCHANGED <<winVars, owner, reserved, timers, coming, closeVars, moves, astray, split>>

(* TERMINAL_CREATE: the session runs, and the sender's window owns it. *)
Created(w, s) ==
  /\ alive[s] = "creating" /\ pane[w][s] # "none"
  /\ alive' = [alive EXCEPT ![s] = "alive"]
  /\ Assign(s, w)
  /\ UNCHANGED <<winVars, timers, coming, pane, closeVars, moves, astray, split>>

(* ... but that window was closed while the session was being created. *)
CreatedLate(s) ==
  /\ alive[s] = "creating" /\ \A w \in Windows : pane[w][s] = "none"
  /\ alive' = [alive EXCEPT ![s] = "alive"]
  /\ astray' = astray \cup {s}
  /\ UNCHANGED <<winVars, owner, reserved, timers, coming, pane, closeVars, moves, split>>

(* The shell exits, or cannot be created.  The owner stays recorded. *)
SessionEnds(s) ==
  /\ alive[s] \in {"creating", "alive"}
  /\ alive' = [alive EXCEPT ![s] = "ended"]
  /\ UNCHANGED <<winVars, owner, reserved, timers, coming, pane, closeVars, moves, astray, split>>

Killed(ids) == alive' = [s \in Sessions |-> IF s \in ids /\ alive[s] = "alive" THEN "ended" ELSE alive[s]]

(* The answer to a create or an attach: a tab closed meanwhile kills. *)
Shown(w, s) ==
  /\ pane[w][s] \in {"opening", "disposed"} /\ alive[s] # "creating"
  /\ IF pane[w][s] = "opening" THEN Paned(w, s, "shown") /\ UNCHANGED alive
     ELSE Paned(w, s, "none") /\ Killed({s})
  /\ UNCHANGED <<winVars, owner, reserved, timers, coming, closeVars, moves, astray, split>>

(* The pane unmounts: it kills what it shows, and leaves what moved away.   *)
(* The 250 ms in which a pane that attached may mount again are left out.   *)
CloseTab(w, s) ==
  /\ \/ pane[w][s] = "opening" /\ Paned(w, s, "disposed") /\ UNCHANGED alive
     \/ pane[w][s] = "shown" /\ Paned(w, s, "none") /\ Killed({s})
     \/ pane[w][s] \in {"leaving", "refused"} /\ Paned(w, s, "none") /\ UNCHANGED alive
  /\ UNCHANGED <<winVars, owner, reserved, timers, coming, closeVars, moves, astray, split>>

-----------------------------------------------------------------------------
(* Moving a tab. *)

(* A tab whose move was refused, or is refused after one that is under way,  *)
(* is not moved again here before the answer; in the code it can be, and    *)
(* the first refusal then undoes the mark of the second move.              *)
Move(w, s) ==
  /\ pane[w][s] \in {"shown", "leaving"} /\ moves < MaxMoves
  /\ moves' = moves + 1

(* The user moves the tab again before the first move was answered. *)
Twice(w, s) == split' = IF pane[w][s] = "leaving" THEN split \cup {s} ELSE split

(* windowActions.adopt: reserved, and the adopt message is sent. *)
MoveToWindow(w, s, t) ==
  /\ Move(w, s) /\ t \in open /\ t # w
  /\ Reserve(s, t)
  /\ coming' = coming \cup {<<t, s>>}
  /\ Paned(w, s, "leaving") /\ Twice(w, s)
  /\ UNCHANGED <<winVars, owner, alive, closeVars, astray>>

(* openNewWindow with a handoff, which the new renderer fetches. *)
MoveToNewWindow(w, s, t) ==
  /\ Move(w, s) /\ t \notin opened
  /\ opened' = opened \cup {t} /\ open' = open \cup {t}
  /\ Reserve(s, t)
  /\ coming' = coming \cup {<<t, s>>}
  /\ Paned(w, s, "leaving") /\ Twice(w, s)
  /\ UNCHANGED <<owner, alive, closeVars, astray>>

(* The target is gone: the window must unmark the session again. *)
MoveRefused(w, s, t) ==
  /\ Move(w, s) /\ pane[w][s] = "shown" /\ t \in opened \ open
  /\ Paned(w, s, "refused")
  /\ UNCHANGED <<winVars, owner, reserved, timers, coming, alive, closeVars, astray, split>>

(* The answer: the tab goes, and its pane leaves the session running. *)
MoveReply(w, s) ==
  /\ \/ pane[w][s] = "leaving" /\ Paned(w, s, "none")
     \/ pane[w][s] = "refused" /\ Paned(w, s, "shown")
  /\ UNCHANGED <<winVars, owner, reserved, timers, coming, alive, closeVars, moves, astray, split>>

\* A mutant: a window that takes over a tab does not claim its session.
AttachUnclaimed(w, s) ==
  /\ <<w, s>> \in coming /\ pane[w][s] \in {"none", "opening", "shown"}
  /\ coming' = coming \ {<<w, s>>}
  /\ IF pane[w][s] = "none" /\ alive[s] = "alive"
     THEN Paned(w, s, "opening") /\ UNCHANGED <<owner, reserved>>
     ELSE UNCHANGED <<pane, owner, reserved>>
  /\ UNCHANGED <<winVars, timers, alive, closeVars, moves, astray, split>>

(* The tab arrives, its pane mounts, and TERMINAL_ATTACH claims the session *)
(* if it still runs.  A tab that is there already is not added again.       *)
Attach(w, s) ==
  /\ <<w, s>> \in coming /\ pane[w][s] \in {"none", "opening", "shown"}
  /\ coming' = coming \ {<<w, s>>}
  /\ IF pane[w][s] = "none" /\ alive[s] = "alive"
     THEN Paned(w, s, "opening") /\ Assign(s, w)
     ELSE UNCHANGED <<pane, owner, reserved>>
  /\ UNCHANGED <<winVars, timers, alive, closeVars, moves, astray, split>>

-----------------------------------------------------------------------------
(* Opening and closing windows. *)

OpenWindow(w) ==
  /\ w \notin opened
  /\ opened' = opened \cup {w} /\ open' = open \cup {w}
  /\ UNCHANGED <<owner, reserved, timers, coming, pane, alive, closeVars, moves, astray, split>>

(* closeSecondaryWindow with sessions: any window may have the focus. *)
AskClose(w, at) ==
  /\ w \in open \ (confirmed \cup {Main}) /\ at \in open
  /\ SessionsOf(w) # {} /\ Cardinality(asks) < MaxAsks
  /\ asks' = asks \cup {[win |-> w, ids |-> SessionsOf(w), at |-> at]}
  /\ UNCHANGED <<winVars, owner, reserved, timers, coming, pane, alive, confirmed, moves, astray, split>>

(* ... and without: nobody is asked. *)
CloseEmpty(w) ==
  /\ w \in open \ (confirmed \cup {Main}) /\ SessionsOf(w) = {}
  /\ confirmed' = confirmed \cup {w}
  /\ UNCHANGED <<winVars, owner, reserved, timers, coming, pane, alive, asks, moves, astray, split>>

(* After the prompt: the sessions that were asked about end, wherever they  *)
(* are by now.                                                             *)
Proceed(q) ==
  /\ asks' = asks \ {q}
  /\ IF q.win \in open THEN Killed(q.ids) /\ confirmed' = confirmed \cup {q.win}
     ELSE UNCHANGED <<alive, confirmed>>
  /\ UNCHANGED <<winVars, owner, reserved, timers, coming, pane, moves, astray, split>>

Confirm(q) == q.at \in open /\ Proceed(q)

Keep(q) ==
  /\ q.at \in open
  /\ asks' = asks \ {q}
  /\ UNCHANGED <<winVars, owner, reserved, timers, coming, pane, alive, confirmed, moves, astray, split>>

\* A mutant: a prompt whose window is gone is answered with no.
LostAsNo(q) ==
  /\ q.at \notin open
  /\ asks' = asks \ {q}
  /\ UNCHANGED <<winVars, owner, reserved, timers, coming, pane, alive, confirmed, moves, astray, split>>

(* addGuardedPrompt: the window that showed it is gone, and that is a yes. *)
Lost(q) == q.at \notin open /\ Proceed(q)

(* 'closed': unregister, and what it released ends.  The renderer, and what *)
(* was on its way to it, are gone.                                          *)
Closed(w) ==
  /\ w \in confirmed
  /\ open' = open \ {w} /\ confirmed' = confirmed \ {w}
  /\ Killed(SessionsOf(w))
  /\ owner' = [s \in Sessions |-> IF s \in SessionsOf(w) THEN NoWindow ELSE owner[s]]
  /\ reserved' = [s \in Sessions |-> IF s \in SessionsOf(w) THEN NoWindow ELSE reserved[s]]
  /\ pane' = [pane EXCEPT ![w] = [s \in Sessions |-> "none"]]
  /\ coming' = {c \in coming : c[1] # w}
  /\ UNCHANGED <<opened, timers, asks, moves, astray, split>>

-----------------------------------------------------------------------------
SessionStep ==
  \E s \in Sessions :
    \/ CreatedLate(s) \/ SessionEnds(s)
    \/ \E w \in Windows : \/ StartSession(w, s) \/ Created(w, s) \/ Shown(w, s)
                          \/ CloseTab(w, s) \/ MoveReply(w, s) \/ Attach(w, s)
                          \/ Lapse(s, w)

MoveStep ==
  \E s \in Sessions, w, t \in Windows :
    MoveToWindow(w, s, t) \/ MoveToNewWindow(w, s, t) \/ MoveRefused(w, s, t)

WindowStep ==
  \/ \E w \in Windows : OpenWindow(w) \/ CloseEmpty(w) \/ Closed(w)
  \/ \E w, at \in Windows : AskClose(w, at)
  \/ \E q \in asks : Confirm(q) \/ Keep(q) \/ Lost(q)

Next == SessionStep \/ MoveStep \/ WindowStep

Spec == Init /\ [][Next]_vars

(* Electron goes on to close a window, and reports it to those who watch.   *)
Fairness ==
  /\ \A w \in Windows : WF_vars(Closed(w))
  /\ WF_vars(\E q \in asks : Lost(q))
FairSpec == Spec /\ Fairness

-----------------------------------------------------------------------------
(* A session that runs is in the list of an open window, which will end it  *)
(* when that window closes: nothing that moves or closes loses it, but for  *)
(* the two ways astray records (its window closed before it was created, a  *)
(* target that did not claim it in 30 s after its owner closed).            *)
NoOrphan == \A s \in Sessions : alive[s] = "alive" => Answered(s) \/ s \in astray

(* The window that shows a running session owns it: its output goes there   *)
(* and no other window ends it.  A tab moved twice at once is excepted.     *)
ShownIsOwned ==
  \A w \in Windows, s \in Sessions :
    pane[w][s] = "shown" /\ alive[s] = "alive" /\ s \notin split => owner[s] = w

(* A step by which window w is closed: the answer to its prompt, or the end. *)
ClosingOf(w) == w \in open \ open' \/ \E q \in asks \ asks' : q.win = w

(* The closing of a window ends a session that another open window shows,   *)
(* or for which one is reserved, only if the user was asked about it: a tab *)
(* that moved away before the question is out of its reach, also between    *)
(* its move and its claim.  The comment of reserve() promises more, that    *)
(* "closing it must not end a session that is being moved": it does not     *)
(* hold of a tab that moves while the question stands, which Proceed ends.  *)
(* A tab moved twice at once is excepted.                                   *)
ClosingSparesOthers ==
  [][\A s \in Sessions \ split, w \in Windows :
       ClosingOf(w) /\ alive[s] = "alive" /\ alive'[s] # "alive"
       => \/ \E q \in asks \ asks' : q.win = w /\ s \in q.ids
          \/ \A v \in open' \ {w} : pane[v][s] # "shown" /\ reserved[s] # v]_vars

(* Whoever asked to close a window, and whose question went with the window *)
(* that showed it, sees it closed: no closing waits for an answer that      *)
(* cannot come.                                                             *)
LostPromptsSettle ==
  \A w \in Windows : (\E q \in asks : q.win = w /\ q.at \notin open) ~> (w \notin open)
=============================================================================
