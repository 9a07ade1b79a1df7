---------------------------- MODULE WindowProofs ----------------------------
(***************************************************************************)
(* Proofs about WindowSessions, for any windows, sessions and bounds.      *)
(***************************************************************************)
EXTENDS WindowSessions, TLAPS

-----------------------------------------------------------------------------
(* The inductive invariant. *)

(* The main window is never among those that are to be closed. *)
MainStays == Main \notin confirmed /\ \A q \in asks : q.win # Main

(* A closed window shows nothing, and nothing is reserved for it. *)
NothingClosed ==
  /\ \A w \in Windows \ open, s \in Sessions : pane[w][s] = "none"
  /\ \A s \in Sessions : reserved[s] # NoWindow => reserved[s] \in open

(* The panes that have a session, or are about to: not those that gave it up. *)
Holds(w, s) == pane[w][s] \in {"opening", "shown", "disposed", "refused"}

(* A session that does not run yet has at most panes that wait for it. *)
Early(s) ==
  /\ owner[s] = NoWindow /\ reserved[s] = NoWindow
  /\ \A w \in Windows : <<w, s>> \notin coming /\ pane[w][s] \in {"none", "opening", "disposed"}
NotYet ==
  \A s \in Sessions :
    /\ alive[s] \in {"new", "creating"} => Early(s)
    /\ alive[s] = "new" => \A w \in Windows : pane[w][s] = "none"

(* One pane holds a session, or one window is about to get it. *)
OneHolder ==
  \A s \in Sessions \ split : \A w, v \in Windows :
    /\ Holds(w, s) /\ Holds(v, s) => w = v
    /\ <<w, s>> \in coming /\ <<v, s>> \in coming => w = v
    /\ ~ (Holds(w, s) /\ <<v, s>> \in coming)

(* The window whose pane holds a running session owns it. *)
HolderOwns ==
  \A s \in Sessions \ split : \A w \in Windows :
    alive[s] = "alive" /\ Holds(w, s) => owner[s] = w /\ reserved[s] = NoWindow

TypeInv == TypeOK /\ MainStays

IInv == TypeInv /\ NothingClosed /\ NotYet /\ OneHolder /\ HolderOwns /\ NoOrphan

-----------------------------------------------------------------------------
(* Types. *)

(* What a session can be after the kill of a set of them. *)
LEMMA KilledType ==
  ASSUME alive \in [Sessions -> Lives], NEW ids, Killed(ids)
  PROVE  alive' \in [Sessions -> Lives]
  BY DEF Killed, Lives

(* What becomes of a pane, and of the others. *)
LEMMA PanedEffect ==
  ASSUME pane \in [Windows -> [Sessions -> Panes]],
         NEW w \in Windows, NEW s \in Sessions, NEW p \in Panes, Paned(w, s, p)
  PROVE  /\ pane' \in [Windows -> [Sessions -> Panes]]
         /\ \A v \in Windows, u \in Sessions :
              pane'[v][u] = IF v = w /\ u = s THEN p ELSE pane[v][u]
  BY DEF Paned

(* Initially, nothing is asked for and only the main window is open. *)
LEMMA TypeInit == Init => TypeInv
  BY MainIsAWindow, BoundsAssumption DEF Init, TypeInv, TypeOK, MainStays, Lives, Panes, Prompts

LEMMA TypeSession == TypeInv /\ SessionStep => TypeInv'
<1> SUFFICES ASSUME TypeInv, NEW s \in Sessions, NEW w \in Windows,
                    \/ CreatedLate(s) \/ SessionEnds(s)
                    \/ StartSession(w, s) \/ Created(w, s) \/ Shown(w, s)
                    \/ CloseTab(w, s) \/ MoveReply(w, s) \/ Attach(w, s) \/ Lapse(s, w)
             PROVE  TypeInv'
  BY MainIsAWindow DEF SessionStep
<1> USE DEF TypeInv, TypeOK, MainStays
<1>p. \A p \in Panes : Paned(w, s, p) => pane' \in [Windows -> [Sessions -> Panes]]
  BY PanedEffect
<1>q. {"none", "opening", "shown", "disposed"} \subseteq Panes
  BY DEF Panes
<1>1. CASE CreatedLate(s)
  BY <1>1 DEF CreatedLate, winVars, closeVars, Lives
<1>2. CASE SessionEnds(s)
  BY <1>2 DEF SessionEnds, winVars, closeVars, Lives
<1>3. CASE StartSession(w, s)
  BY <1>3, <1>p, <1>q DEF StartSession, winVars, closeVars, Lives
<1>4. CASE Created(w, s)
  BY <1>4 DEF Created, Assign, winVars, closeVars, Lives
<1>5. CASE Shown(w, s)
  <2>1. pane' \in [Windows -> [Sessions -> Panes]]
    BY <1>5, <1>p, <1>q DEF Shown
  <2>2. alive' \in [Sessions -> Lives]
    BY <1>5, KilledType DEF Shown
  <2> QED
    BY <1>5, <2>1, <2>2 DEF Shown, winVars, closeVars
<1>6. CASE CloseTab(w, s)
  <2>1. pane' \in [Windows -> [Sessions -> Panes]]
    BY <1>6, <1>p, <1>q DEF CloseTab
  <2>2. alive' \in [Sessions -> Lives]
    BY <1>6, KilledType DEF CloseTab
  <2> QED
    BY <1>6, <2>1, <2>2 DEF CloseTab, winVars, closeVars
<1>7. CASE MoveReply(w, s)
  <2>1. pane' \in [Windows -> [Sessions -> Panes]]
    BY <1>7, <1>p, <1>q DEF MoveReply
  <2> QED
    BY <1>7, <2>1 DEF MoveReply, winVars, closeVars
<1>8. CASE Attach(w, s)
  <2>1. pane' \in [Windows -> [Sessions -> Panes]]
    BY <1>8, <1>p, <1>q DEF Attach
  <2>2. /\ owner' \in [Sessions -> Windows \cup {NoWindow}]
        /\ reserved' \in [Sessions -> Windows \cup {NoWindow}]
    BY <1>8 DEF Attach, Assign
  <2> QED
    BY <1>8, <2>1, <2>2 DEF Attach, winVars, closeVars
<1>9. CASE Lapse(s, w)
  <2>1. timers' \in [Sessions -> [Windows -> Nat]]
    BY <1>9 DEF Lapse
  <2>2. reserved' \in [Sessions -> Windows \cup {NoWindow}]
    BY <1>9 DEF Lapse
  <2> QED
    BY <1>9, <2>1, <2>2 DEF Lapse, winVars, closeVars
<1> QED
  BY <1>1, <1>2, <1>3, <1>4, <1>5, <1>6, <1>7, <1>8, <1>9

LEMMA TypeMove == TypeInv /\ MoveStep => TypeInv'
<1> SUFFICES ASSUME TypeInv, NEW s \in Sessions, NEW w \in Windows, NEW t \in Windows,
                    MoveToWindow(w, s, t) \/ MoveToNewWindow(w, s, t) \/ MoveRefused(w, s, t)
             PROVE  TypeInv'
  BY DEF MoveStep
<1> USE BoundsAssumption DEF TypeInv, TypeOK, MainStays
<1>1. Move(w, s) => moves' \in 0 .. MaxMoves
  BY DEF Move
<1>2. Reserve(s, t) => /\ reserved' \in [Sessions -> Windows \cup {NoWindow}]
                       /\ timers' \in [Sessions -> [Windows -> Nat]]
  BY DEF Reserve
<1>3. \A p \in Panes : Paned(w, s, p) => pane' \in [Windows -> [Sessions -> Panes]]
  BY PanedEffect
<1>4. "leaving" \in Panes /\ "refused" \in Panes
  BY DEF Panes
<1>5. Twice(w, s) => split' \in SUBSET Sessions
  BY DEF Twice
<1>6. CASE MoveToWindow(w, s, t)
  BY <1>1, <1>2, <1>3, <1>4, <1>5, <1>6 DEF MoveToWindow, winVars, closeVars
<1>7. CASE MoveToNewWindow(w, s, t)
  BY <1>1, <1>2, <1>3, <1>4, <1>5, <1>7 DEF MoveToNewWindow, closeVars
<1>8. CASE MoveRefused(w, s, t)
  BY <1>1, <1>3, <1>4, <1>8 DEF MoveRefused, winVars, closeVars
<1> QED
  BY <1>6, <1>7, <1>8

LEMMA TypeWindow == TypeInv /\ WindowStep => TypeInv'
<1> SUFFICES ASSUME TypeInv, WindowStep PROVE TypeInv'
  OBVIOUS
<1> USE DEF TypeInv, TypeOK, MainStays
<1>1. ASSUME NEW w \in Windows, OpenWindow(w) PROVE TypeInv'
  BY <1>1 DEF OpenWindow, closeVars
<1>2. ASSUME NEW w \in Windows, CloseEmpty(w) PROVE TypeInv'
  BY <1>2 DEF CloseEmpty, winVars
<1>3. ASSUME NEW w \in Windows, Closed(w) PROVE TypeInv'
  <2>1. alive' \in [Sessions -> Lives]
    BY <1>3, KilledType DEF Closed
  <2>2. pane' \in [Windows -> [Sessions -> Panes]]
    BY <1>3 DEF Closed, Panes
  <2>3. /\ owner' \in [Sessions -> Windows \cup {NoWindow}]
        /\ reserved' \in [Sessions -> Windows \cup {NoWindow}]
    BY <1>3 DEF Closed
  <2>4. coming' \in SUBSET (open' \X Sessions)
    BY <1>3 DEF Closed
  <2> QED
    BY <1>3, <2>1, <2>2, <2>3, <2>4 DEF Closed
<1>4. ASSUME NEW w \in Windows, NEW at \in Windows, AskClose(w, at) PROVE TypeInv'
  <2>1. [win |-> w, ids |-> SessionsOf(w), at |-> at] \in Prompts
    BY DEF Prompts, SessionsOf
  <2> QED
    BY <1>4, <2>1 DEF AskClose, winVars
<1>5. ASSUME NEW q \in asks, Proceed(q) PROVE TypeInv'
  <2>1. alive' \in [Sessions -> Lives]
    BY <1>5, KilledType DEF Proceed
  <2> QED
    BY <1>5, <2>1 DEF Proceed, winVars, Prompts
<1>6. ASSUME NEW q \in asks, Keep(q) PROVE TypeInv'
  BY <1>6 DEF Keep, winVars
<1> QED
  BY <1>1, <1>2, <1>3, <1>4, <1>5, <1>6 DEF WindowStep, Confirm, Lost

LEMMA TypeNext == TypeInv /\ [Next]_vars => TypeInv'
<1> SUFFICES ASSUME TypeInv, [Next]_vars PROVE TypeInv'
  OBVIOUS
<1>1. CASE UNCHANGED vars
  BY <1>1 DEF TypeInv, TypeOK, MainStays, vars, winVars, closeVars
<1> QED
  BY <1>1, TypeSession, TypeMove, TypeWindow DEF Next

-----------------------------------------------------------------------------
(* Every action preserves the rest of the invariant. *)

Core == NothingClosed /\ NotYet /\ OneHolder /\ HolderOwns /\ NoOrphan

(* A step that only lets go of sessions leaves one holder of each. *)
LEMMA LettingGo ==
  ASSUME OneHolder, split \subseteq split', coming' \subseteq coming,
         \A v \in Windows, u \in Sessions : Holds(v, u)' => Holds(v, u)
  PROVE  OneHolder'
  BY DEF OneHolder

LEMMA StartSessionCore ==
  ASSUME IInv, NEW w \in Windows, NEW s \in Sessions, StartSession(w, s)
  PROVE  Core'
<1> USE DEF IInv, TypeInv, TypeOK
<1>p. \A v \in Windows, u \in Sessions :
          pane'[v][u] = IF v = w /\ u = s THEN "opening" ELSE pane[v][u]
  BY PanedEffect DEF StartSession, Panes
<1>h. \A v \in Windows, u \in Sessions :
          Holds(v, u)' <=> IF v = w /\ u = s THEN TRUE ELSE Holds(v, u)
  BY <1>p DEF Holds
<1>1. NothingClosed'
  BY <1>p, SMTT(30) DEF StartSession, winVars, NothingClosed
<1>2. NotYet'
  BY <1>p DEF StartSession, NotYet, Early
<1>3. OneHolder'
  <2>1. \A v \in Windows : ~ Holds(v, s) /\ <<v, s>> \notin coming
    BY DEF StartSession, NotYet, Early, Holds
  <2> SUFFICES ASSUME NEW u \in Sessions \ split', NEW x \in Windows, NEW y \in Windows
               PROVE  /\ Holds(x, u)' /\ Holds(y, u)' => x = y
                      /\ <<x, u>> \in coming' /\ <<y, u>> \in coming' => x = y
                      /\ ~ (Holds(x, u)' /\ <<y, u>> \in coming')
    BY DEF OneHolder
  <2>2. CASE u # s
    BY <2>2, <1>h DEF StartSession, OneHolder
  <2>3. CASE u = s
    BY <2>3, <1>h, <2>1 DEF StartSession
  <2> QED
    BY <2>2, <2>3
<1>4. HolderOwns'
  BY <1>h DEF StartSession, HolderOwns
<1>5. NoOrphan'
  BY DEF StartSession, winVars, NoOrphan, Answered, SessionsOf
<1> QED
  BY <1>1, <1>2, <1>3, <1>4, <1>5 DEF Core

LEMMA CreatedCore ==
  ASSUME IInv, NEW w \in Windows, NEW s \in Sessions, Created(w, s)
  PROVE  Core'
<1> USE DEF IInv, TypeInv, TypeOK
<1>o. w \in open
  BY DEF Created, NothingClosed
<1>a. Holds(w, s)
  BY DEF Created, NotYet, Early, Holds
<1>1. NothingClosed'
  BY DEF Created, Assign, winVars, NothingClosed
<1>2. NotYet'
  BY DEF Created, Assign, NotYet, Early
<1>3. OneHolder'
  BY DEF Created, OneHolder, Holds
<1>4. HolderOwns'
  <2>1. \A v \in Windows, u \in Sessions : Holds(v, u)' <=> Holds(v, u)
    BY DEF Created, Holds
  <2>2. s \notin split => \A v \in Windows : Holds(v, s) => v = w
    BY <1>a DEF OneHolder
  <2> QED
    BY <2>1, <2>2 DEF Created, Assign, HolderOwns
<1>5. NoOrphan'
  <2>1. Answered(s)'
    BY <1>o DEF Created, Assign, Answered, SessionsOf, winVars
  <2>2. \A u \in Sessions \ {s} : Answered(u) => Answered(u)'
    BY DEF Created, Assign, Answered, SessionsOf, winVars
  <2> QED
    BY <2>1, <2>2 DEF Created, NoOrphan
<1> QED
  BY <1>1, <1>2, <1>3, <1>4, <1>5 DEF Core

LEMMA CreatedLateCore ==
  ASSUME IInv, NEW w \in Windows, NEW s \in Sessions, CreatedLate(s)
  PROVE  Core'
<1> USE DEF IInv, TypeInv, TypeOK
<1>1. NothingClosed'
  BY DEF CreatedLate, winVars, NothingClosed
<1>2. NotYet'
  BY DEF CreatedLate, NotYet, Early
<1>3. OneHolder'
  BY DEF CreatedLate, OneHolder, Holds
<1>4. HolderOwns'
  BY DEF CreatedLate, HolderOwns, Holds
<1>5. NoOrphan'
  BY DEF CreatedLate, winVars, NoOrphan, Answered, SessionsOf
<1> QED
  BY <1>1, <1>2, <1>3, <1>4, <1>5 DEF Core

LEMMA SessionEndsCore ==
  ASSUME IInv, NEW w \in Windows, NEW s \in Sessions, SessionEnds(s)
  PROVE  Core'
<1> USE DEF IInv, TypeInv, TypeOK
<1>1. NothingClosed'
  BY DEF SessionEnds, winVars, NothingClosed
<1>2. NotYet'
  BY DEF SessionEnds, NotYet, Early
<1>3. OneHolder'
  BY DEF SessionEnds, OneHolder, Holds
<1>4. HolderOwns'
  BY DEF SessionEnds, HolderOwns, Holds
<1>5. NoOrphan'
  BY DEF SessionEnds, winVars, NoOrphan, Answered, SessionsOf
<1> QED
  BY <1>1, <1>2, <1>3, <1>4, <1>5 DEF Core

LEMMA ShownCore ==
  ASSUME IInv, NEW w \in Windows, NEW s \in Sessions, Shown(w, s)
  PROVE  Core'
<1> USE DEF IInv, TypeInv, TypeOK
<1>p. \A v \in Windows, u \in Sessions :
          pane'[v][u] = IF v = w /\ u = s THEN (IF pane[w][s] = "opening" THEN "shown" ELSE "none") ELSE pane[v][u]
  <2>1. CASE pane[w][s] = "opening"
    BY <2>1, PanedEffect DEF Shown, Panes
  <2>2. CASE pane[w][s] # "opening"
    BY <2>2, PanedEffect DEF Shown, Panes
  <2> QED
    BY <2>1, <2>2 DEF Shown
<1>h. \A v \in Windows, u \in Sessions :
          Holds(v, u)' <=> IF v = w /\ u = s THEN pane[w][s] = "opening" ELSE Holds(v, u)
  BY <1>p DEF Holds
<1>1. NothingClosed'
  BY <1>p DEF Shown, winVars, NothingClosed
<1>2. NotYet'
  BY <1>p DEF Shown, Killed, NotYet, Early
<1>3. OneHolder'
  <2>1. \A v \in Windows, u \in Sessions : Holds(v, u)' => Holds(v, u)
    BY <1>h DEF Shown, Holds
  <2> QED
    BY <2>1, LettingGo DEF Shown
<1>4. HolderOwns'
  BY <1>h DEF Shown, Killed, HolderOwns, Holds
<1>5. NoOrphan'
  BY DEF Shown, Killed, winVars, NoOrphan, Answered, SessionsOf
<1> QED
  BY <1>1, <1>2, <1>3, <1>4, <1>5 DEF Core

LEMMA CloseTabCore ==
  ASSUME IInv, NEW w \in Windows, NEW s \in Sessions, CloseTab(w, s)
  PROVE  Core'
<1> USE DEF IInv, TypeInv, TypeOK
<1>p. \A v \in Windows, u \in Sessions :
          pane'[v][u] = IF v = w /\ u = s THEN (IF pane[w][s] = "opening" THEN "disposed" ELSE "none") ELSE pane[v][u]
  <2>1. CASE pane[w][s] = "opening"
    BY <2>1, PanedEffect DEF CloseTab, Panes
  <2>2. CASE pane[w][s] # "opening"
    BY <2>2, PanedEffect DEF CloseTab, Panes
  <2> QED
    BY <2>1, <2>2 DEF CloseTab
<1>h. \A v \in Windows, u \in Sessions :
          Holds(v, u)' <=> IF v = w /\ u = s THEN pane[w][s] = "opening" ELSE Holds(v, u)
  BY <1>p DEF Holds
<1>1. NothingClosed'
  BY <1>p DEF CloseTab, winVars, NothingClosed
<1>2. NotYet'
  BY <1>p DEF CloseTab, Killed, NotYet, Early
<1>3. OneHolder'
  <2>1. \A v \in Windows, u \in Sessions : Holds(v, u)' => Holds(v, u)
    BY <1>h DEF CloseTab, Holds
  <2> QED
    BY <2>1, LettingGo DEF CloseTab
<1>4. HolderOwns'
  BY <1>h DEF CloseTab, Killed, HolderOwns, Holds
<1>5. NoOrphan'
  BY DEF CloseTab, Killed, winVars, NoOrphan, Answered, SessionsOf
<1> QED
  BY <1>1, <1>2, <1>3, <1>4, <1>5 DEF Core

LEMMA MoveReplyCore ==
  ASSUME IInv, NEW w \in Windows, NEW s \in Sessions, MoveReply(w, s)
  PROVE  Core'
<1> USE DEF IInv, TypeInv, TypeOK
<1>p. \A v \in Windows, u \in Sessions :
          pane'[v][u] = IF v = w /\ u = s THEN (IF pane[w][s] = "leaving" THEN "none" ELSE "shown") ELSE pane[v][u]
  <2>1. CASE pane[w][s] = "leaving"
    BY <2>1, PanedEffect DEF MoveReply, Panes
  <2>2. CASE pane[w][s] # "leaving"
    BY <2>2, PanedEffect DEF MoveReply, Panes
  <2> QED
    BY <2>1, <2>2 DEF MoveReply
<1>h. \A v \in Windows, u \in Sessions :
          Holds(v, u)' <=> IF v = w /\ u = s THEN pane[w][s] # "leaving" ELSE Holds(v, u)
  BY <1>p DEF Holds
<1>1. NothingClosed'
  BY <1>p DEF MoveReply, winVars, NothingClosed
<1>2. NotYet'
  BY <1>p DEF MoveReply, NotYet, Early
<1>3. OneHolder'
  <2>1. \A v \in Windows, u \in Sessions : Holds(v, u)' => Holds(v, u)
    BY <1>h DEF MoveReply, Holds
  <2> QED
    BY <2>1, LettingGo DEF MoveReply
<1>4. HolderOwns'
  BY <1>h DEF MoveReply, HolderOwns, Holds
<1>5. NoOrphan'
  BY DEF MoveReply, winVars, NoOrphan, Answered, SessionsOf
<1> QED
  BY <1>1, <1>2, <1>3, <1>4, <1>5 DEF Core

LEMMA AttachCore ==
  ASSUME IInv, NEW w \in Windows, NEW s \in Sessions, Attach(w, s)
  PROVE  Core'
<1> USE DEF IInv, TypeInv, TypeOK
<1>o. w \in open
  BY DEF Attach
<1>p. \A v \in Windows, u \in Sessions :
          pane'[v][u] = IF v = w /\ u = s THEN (IF pane[w][s] = "none" /\ alive[s] = "alive" THEN "opening" ELSE pane[w][s]) ELSE pane[v][u]
  <2>1. CASE pane[w][s] = "none" /\ alive[s] = "alive"
    BY <2>1, PanedEffect DEF Attach, Panes
  <2>2. CASE ~ (pane[w][s] = "none" /\ alive[s] = "alive")
    BY <2>2 DEF Attach
  <2> QED
    BY <2>1, <2>2 DEF Attach
<1>h. \A v \in Windows, u \in Sessions :
          Holds(v, u)' <=> IF v = w /\ u = s THEN pane[w][s] # "none" \/ alive[s] = "alive" ELSE Holds(v, u)
  BY <1>p DEF Attach, Holds
<1>1. NothingClosed'
  <2>1. \A v \in Windows \ open', u \in Sessions : pane'[v][u] = "none"
    BY <1>p DEF Attach, NothingClosed, winVars
  <2>2. \A u \in Sessions : reserved'[u] # NoWindow => reserved'[u] \in open'
    BY DEF Attach, Assign, NothingClosed, winVars
  <2> QED
    BY <2>1, <2>2 DEF NothingClosed
<1>2. NotYet'
  BY <1>p DEF Attach, Assign, NotYet, Early
<1>a. s \notin split => \A v \in Windows : ~ Holds(v, s) /\ (<<v, s>> \in coming => v = w)
  BY DEF Attach, OneHolder
<1>c. \A v \in Windows, u \in Sessions :
          <<v, u>> \in coming' <=> <<v, u>> \in coming /\ ~ (v = w /\ u = s)
  BY DEF Attach
<1>3. OneHolder'
  BY <1>h DEF Attach, OneHolder
<1>4. HolderOwns'
  <2>1. CASE pane[w][s] = "none" /\ alive[s] = "alive"
    <3> SUFFICES ASSUME NEW u \in Sessions \ split, NEW v \in Windows, alive[u] = "alive", Holds(v, u)'
                 PROVE  owner'[u] = v /\ reserved'[u] = NoWindow
      BY DEF Attach, HolderOwns
    <3>1. CASE u # s
      BY <3>1, <2>1, <1>h DEF Attach, Assign, HolderOwns
    <3>2. CASE u = s
      <4>1. v = w
        BY <3>2, <1>h, <1>a
      <4> QED
        BY <4>1, <3>2, <2>1 DEF Attach, Assign
    <3> QED
      BY <3>1, <3>2
  <2>2. CASE ~ (pane[w][s] = "none" /\ alive[s] = "alive")
    BY <2>2 DEF Attach, HolderOwns, Holds
  <2> QED
    BY <2>1, <2>2
<1>5. NoOrphan'
  BY DEF Attach, Assign, winVars, NoOrphan, Answered, SessionsOf
<1> QED
  BY <1>1, <1>2, <1>3, <1>4, <1>5 DEF Core

LEMMA LapseCore ==
  ASSUME IInv, NEW w \in Windows, NEW s \in Sessions, Lapse(s, w)
  PROVE  Core'
<1> USE DEF IInv, TypeInv, TypeOK
<1>1. NothingClosed'
  BY DEF Lapse, winVars, NothingClosed
<1>2. NotYet'
  BY DEF Lapse, NotYet, Early
<1>3. OneHolder'
  BY DEF Lapse, OneHolder, Holds
<1>4. HolderOwns'
  BY DEF Lapse, HolderOwns, Holds
<1>5. NoOrphan'
  BY DEF Lapse, winVars, NoOrphan, Answered, SessionsOf
<1> QED
  BY <1>1, <1>2, <1>3, <1>4, <1>5 DEF Core

LEMMA MoveToWindowCore ==
  ASSUME IInv, NEW w \in Windows, NEW s \in Sessions, NEW t \in Windows, MoveToWindow(w, s, t)
  PROVE  Core'
<1> USE DEF IInv, TypeInv, TypeOK
<1>p. \A v \in Windows, u \in Sessions :
          pane'[v][u] = IF v = w /\ u = s THEN "leaving" ELSE pane[v][u]
  BY PanedEffect DEF MoveToWindow, Panes
<1>h. \A v \in Windows, u \in Sessions :
          Holds(v, u)' <=> IF v = w /\ u = s THEN FALSE ELSE Holds(v, u)
  BY <1>p DEF Holds
<1>a. alive[s] \notin {"new", "creating"}
  BY DEF MoveToWindow, Move, NotYet, Early
<1>c. \A v \in Windows, u \in Sessions :
          <<v, u>> \in coming' <=> <<v, u>> \in coming \/ (v = t /\ u = s)
  BY DEF MoveToWindow
<1>1. NothingClosed'
  BY <1>p DEF MoveToWindow, Move, Reserve, winVars, NothingClosed
<1>2. NotYet'
  BY <1>p, <1>a DEF MoveToWindow, Reserve, NotYet, Early
<1>3. OneHolder'
  <2>1. split \subseteq split' /\ (s \notin split' => Holds(w, s))
    BY DEF MoveToWindow, Move, Twice, Holds
  <2>2. s \notin split' => \A v \in Windows : <<v, s>> \notin coming /\ (Holds(v, s) => v = w)
    BY <2>1 DEF OneHolder
  <2> SUFFICES ASSUME NEW u \in Sessions \ split', NEW x \in Windows, NEW y \in Windows
               PROVE  /\ Holds(x, u)' /\ Holds(y, u)' => x = y
                      /\ <<x, u>> \in coming' /\ <<y, u>> \in coming' => x = y
                      /\ ~ (Holds(x, u)' /\ <<y, u>> \in coming')
    BY DEF OneHolder
  <2>3. CASE u # s
    BY <2>3, <1>h, <1>c, <2>1 DEF OneHolder
  <2>4. CASE u = s
    BY <2>4, <1>h, <1>c, <2>2
  <2> QED
    BY <2>3, <2>4
<1>4. HolderOwns'
  BY <1>h DEF MoveToWindow, Move, Reserve, Twice, HolderOwns, Holds
<1>5. NoOrphan'
  BY DEF MoveToWindow, Reserve, winVars, NoOrphan, Answered, SessionsOf
<1> QED
  BY <1>1, <1>2, <1>3, <1>4, <1>5 DEF Core

LEMMA MoveToNewWindowCore ==
  ASSUME IInv, NEW w \in Windows, NEW s \in Sessions, NEW t \in Windows, MoveToNewWindow(w, s, t)
  PROVE  Core'
<1> USE DEF IInv, TypeInv, TypeOK
<1>p. \A v \in Windows, u \in Sessions :
          pane'[v][u] = IF v = w /\ u = s THEN "leaving" ELSE pane[v][u]
  BY PanedEffect DEF MoveToNewWindow, Panes
<1>h. \A v \in Windows, u \in Sessions :
          Holds(v, u)' <=> IF v = w /\ u = s THEN FALSE ELSE Holds(v, u)
  BY <1>p DEF Holds
<1>a. alive[s] \notin {"new", "creating"}
  BY DEF MoveToNewWindow, Move, NotYet, Early
<1>c. \A v \in Windows, u \in Sessions :
          <<v, u>> \in coming' <=> <<v, u>> \in coming \/ (v = t /\ u = s)
  BY DEF MoveToNewWindow
<1>1. NothingClosed'
  BY <1>p DEF MoveToNewWindow, Move, Reserve, NothingClosed
<1>2. NotYet'
  BY <1>p, <1>a DEF MoveToNewWindow, Reserve, NotYet, Early
<1>3. OneHolder'
  <2>1. split \subseteq split' /\ (s \notin split' => Holds(w, s))
    BY DEF MoveToNewWindow, Move, Twice, Holds
  <2>2. s \notin split' => \A v \in Windows : <<v, s>> \notin coming /\ (Holds(v, s) => v = w)
    BY <2>1 DEF OneHolder
  <2> SUFFICES ASSUME NEW u \in Sessions \ split', NEW x \in Windows, NEW y \in Windows
               PROVE  /\ Holds(x, u)' /\ Holds(y, u)' => x = y
                      /\ <<x, u>> \in coming' /\ <<y, u>> \in coming' => x = y
                      /\ ~ (Holds(x, u)' /\ <<y, u>> \in coming')
    BY DEF OneHolder
  <2>3. CASE u # s
    BY <2>3, <1>h, <1>c, <2>1 DEF OneHolder
  <2>4. CASE u = s
    BY <2>4, <1>h, <1>c, <2>2
  <2> QED
    BY <2>3, <2>4
<1>4. HolderOwns'
  BY <1>h DEF MoveToNewWindow, Move, Reserve, Twice, HolderOwns, Holds
<1>5. NoOrphan'
  BY DEF MoveToNewWindow, Reserve, NoOrphan, Answered, SessionsOf
<1> QED
  BY <1>1, <1>2, <1>3, <1>4, <1>5 DEF Core

LEMMA MoveRefusedCore ==
  ASSUME IInv, NEW w \in Windows, NEW s \in Sessions, NEW t \in Windows, MoveRefused(w, s, t)
  PROVE  Core'
<1> USE DEF IInv, TypeInv, TypeOK
<1>p. \A v \in Windows, u \in Sessions :
          pane'[v][u] = IF v = w /\ u = s THEN "refused" ELSE pane[v][u]
  BY PanedEffect DEF MoveRefused, Panes
<1>h. \A v \in Windows, u \in Sessions :
          Holds(v, u)' <=> IF v = w /\ u = s THEN TRUE ELSE Holds(v, u)
  BY <1>p DEF Holds
<1>1. NothingClosed'
  BY <1>p DEF MoveRefused, winVars, NothingClosed
<1>2. NotYet'
  BY <1>p DEF MoveRefused, NotYet, Early
<1>3. OneHolder'
  <2>1. \A v \in Windows, u \in Sessions : Holds(v, u)' => Holds(v, u)
    BY <1>h DEF MoveRefused, Holds
  <2> QED
    BY <2>1, LettingGo DEF MoveRefused
<1>4. HolderOwns'
  BY <1>h DEF MoveRefused, HolderOwns, Holds
<1>5. NoOrphan'
  BY DEF MoveRefused, winVars, NoOrphan, Answered, SessionsOf
<1> QED
  BY <1>1, <1>2, <1>3, <1>4, <1>5 DEF Core

LEMMA OpenWindowCore ==
  ASSUME IInv, NEW w \in Windows, OpenWindow(w)
  PROVE  Core'
<1> USE DEF IInv, TypeInv, TypeOK
<1>1. NothingClosed'
  BY DEF OpenWindow, NothingClosed
<1>2. NotYet'
  BY DEF OpenWindow, NotYet, Early
<1>3. OneHolder'
  BY DEF OpenWindow, OneHolder, Holds
<1>4. HolderOwns'
  BY DEF OpenWindow, HolderOwns, Holds
<1>5. NoOrphan'
  BY DEF OpenWindow, NoOrphan, Answered, SessionsOf
<1> QED
  BY <1>1, <1>2, <1>3, <1>4, <1>5 DEF Core

LEMMA CloseEmptyCore ==
  ASSUME IInv, NEW w \in Windows, CloseEmpty(w)
  PROVE  Core'
<1> USE DEF IInv, TypeInv, TypeOK
<1>1. NothingClosed'
  BY DEF CloseEmpty, winVars, NothingClosed
<1>2. NotYet'
  BY DEF CloseEmpty, NotYet, Early
<1>3. OneHolder'
  BY DEF CloseEmpty, OneHolder, Holds
<1>4. HolderOwns'
  BY DEF CloseEmpty, HolderOwns, Holds
<1>5. NoOrphan'
  BY DEF CloseEmpty, winVars, NoOrphan, Answered, SessionsOf
<1> QED
  BY <1>1, <1>2, <1>3, <1>4, <1>5 DEF Core

LEMMA ClosedCore ==
  ASSUME IInv, NEW w \in Windows, Closed(w)
  PROVE  Core'
<1> USE DEF IInv, TypeInv, TypeOK
<1>1. NothingClosed'
  BY DEF Closed, SessionsOf, NothingClosed
<1>2. NotYet'
  BY DEF Closed, Killed, NotYet, Early
<1>3. OneHolder'
  BY DEF Closed, OneHolder, Holds
<1>4. HolderOwns'
  BY DEF Closed, Killed, HolderOwns, Holds
<1>5. NoOrphan'
  BY DEF Closed, Killed, NoOrphan, Answered, SessionsOf
<1> QED
  BY <1>1, <1>2, <1>3, <1>4, <1>5 DEF Core

LEMMA AskCloseCore ==
  ASSUME IInv, NEW w \in Windows, NEW at \in Windows, AskClose(w, at)
  PROVE  Core'
<1> USE DEF IInv, TypeInv, TypeOK
<1>1. NothingClosed'
  BY DEF AskClose, winVars, NothingClosed
<1>2. NotYet'
  BY DEF AskClose, NotYet, Early
<1>3. OneHolder'
  BY DEF AskClose, OneHolder, Holds
<1>4. HolderOwns'
  BY DEF AskClose, HolderOwns, Holds
<1>5. NoOrphan'
  BY DEF AskClose, winVars, NoOrphan, Answered, SessionsOf
<1> QED
  BY <1>1, <1>2, <1>3, <1>4, <1>5 DEF Core

LEMMA ProceedCore ==
  ASSUME IInv, NEW q \in asks, Proceed(q)
  PROVE  Core'
<1> USE DEF IInv, TypeInv, TypeOK
<1>1. NothingClosed'
  BY DEF Proceed, winVars, NothingClosed
<1>2. NotYet'
  BY DEF Proceed, Killed, NotYet, Early
<1>3. OneHolder'
  BY DEF Proceed, OneHolder, Holds
<1>4. HolderOwns'
  BY DEF Proceed, Killed, HolderOwns, Holds
<1>5. NoOrphan'
  BY DEF Proceed, Killed, winVars, NoOrphan, Answered, SessionsOf
<1> QED
  BY <1>1, <1>2, <1>3, <1>4, <1>5 DEF Core

LEMMA KeepCore ==
  ASSUME IInv, NEW q \in asks, Keep(q)
  PROVE  Core'
<1> USE DEF IInv, TypeInv, TypeOK
<1>1. NothingClosed'
  BY DEF Keep, winVars, NothingClosed
<1>2. NotYet'
  BY DEF Keep, NotYet, Early
<1>3. OneHolder'
  BY DEF Keep, OneHolder, Holds
<1>4. HolderOwns'
  BY DEF Keep, HolderOwns, Holds
<1>5. NoOrphan'
  BY DEF Keep, winVars, NoOrphan, Answered, SessionsOf
<1> QED
  BY <1>1, <1>2, <1>3, <1>4, <1>5 DEF Core

-----------------------------------------------------------------------------
(* The invariant, and what follows from it. *)

LEMMA InvInit == Init => IInv
<1> SUFFICES ASSUME Init PROVE IInv
  OBVIOUS
<1>1. TypeInv
  BY TypeInit
<1>2. NothingClosed /\ NotYet
  BY DEF Init, NothingClosed, NotYet, Early
<1>3. OneHolder /\ HolderOwns /\ NoOrphan
  BY DEF Init, OneHolder, Holds, HolderOwns, NoOrphan
<1> QED
  BY <1>1, <1>2, <1>3 DEF IInv

LEMMA CoreStutters == ASSUME Core, UNCHANGED vars PROVE Core'
<1> USE DEF vars, winVars, closeVars
<1>1. NothingClosed' /\ NotYet'
  BY DEF Core, NothingClosed, NotYet, Early
<1>2. OneHolder' /\ HolderOwns'
  BY DEF Core, OneHolder, HolderOwns, Holds
<1>3. NoOrphan'
  BY DEF Core, NoOrphan, Answered, SessionsOf
<1> QED
  BY <1>1, <1>2, <1>3 DEF Core

LEMMA CoreSession == IInv /\ SessionStep => Core'
<1> SUFFICES ASSUME IInv, NEW s \in Sessions, NEW w \in Windows,
                    \/ CreatedLate(s) \/ SessionEnds(s)
                    \/ StartSession(w, s) \/ Created(w, s) \/ Shown(w, s)
                    \/ CloseTab(w, s) \/ MoveReply(w, s) \/ Attach(w, s) \/ Lapse(s, w)
             PROVE  Core'
  BY MainIsAWindow DEF SessionStep
<1> QED
  BY CreatedLateCore, SessionEndsCore, StartSessionCore, CreatedCore, ShownCore, CloseTabCore,
     MoveReplyCore, AttachCore, LapseCore

LEMMA CoreMove == IInv /\ MoveStep => Core'
  BY MoveToWindowCore, MoveToNewWindowCore, MoveRefusedCore DEF MoveStep

LEMMA CoreWindow == IInv /\ WindowStep => Core'
  BY OpenWindowCore, CloseEmptyCore, ClosedCore, AskCloseCore, ProceedCore, KeepCore
  DEF WindowStep, Confirm, Lost

LEMMA InvNext == IInv /\ [Next]_vars => IInv'
<1> SUFFICES ASSUME IInv, [Next]_vars PROVE IInv'
  OBVIOUS
<1>1. TypeInv'
  BY TypeNext DEF IInv
<1>2. Core'
  BY CoreStutters, CoreSession, CoreMove, CoreWindow DEF Next, IInv, Core
<1> QED
  BY <1>1, <1>2 DEF IInv, Core

THEOREM Invariance == Spec => []IInv
  BY InvInit, InvNext, PTL DEF Spec

(* The registry, the panes and the prompts keep their types, and the main   *)
(* window stays.                                                            *)
THEOREM TypeCorrect == Spec => []TypeOK
  BY Invariance, PTL DEF IInv, TypeInv

(* Whatever windows open, close and hand to each other, an open window      *)
(* answers for each running session that did not go astray.                 *)
THEOREM SessionsAreAnswered == Spec => []NoOrphan
  BY Invariance, PTL DEF IInv

(* The window that shows a running session owns it, through any sequence of *)
(* moves, refusals, lapsed reservations and closings.                       *)
THEOREM ShownAreOwned == Spec => []ShownIsOwned
<1>1. IInv => ShownIsOwned
  BY DEF IInv, HolderOwns, Holds, ShownIsOwned
<1> QED
  BY <1>1, Invariance, PTL

\* What happens to a session opens, asks and closes nothing.
LEMMA SessionStepSpares == SessionStep => UNCHANGED winVars /\ UNCHANGED closeVars
<1> SUFFICES ASSUME NEW s \in Sessions,
                    \/ CreatedLate(s) \/ SessionEnds(s)
                    \/ \E w \in Windows : \/ StartSession(w, s) \/ Created(w, s) \/ Shown(w, s)
                                          \/ CloseTab(w, s) \/ MoveReply(w, s) \/ Attach(w, s)
                                          \/ Lapse(s, w)
             PROVE  UNCHANGED winVars /\ UNCHANGED closeVars
  BY Zenon DEF SessionStep
<1>1. CASE CreatedLate(s) \/ SessionEnds(s)
  BY <1>1, Zenon DEF CreatedLate, SessionEnds
<1>2. CASE \E w \in Windows : StartSession(w, s) \/ Created(w, s) \/ Shown(w, s)
  BY <1>2, Zenon DEF StartSession, Created, Shown
<1>3. CASE \E w \in Windows : CloseTab(w, s) \/ MoveReply(w, s) \/ Attach(w, s) \/ Lapse(s, w)
  BY <1>3, Zenon DEF CloseTab, MoveReply, Attach, Lapse
<1> QED BY <1>1, <1>2, <1>3, Zenon

(* What a step by which a window is closed may be. *)
LEMMA ClosingStep ==
  ASSUME Next, NEW w \in Windows, ClosingOf(w)
  PROVE  Closed(w) \/ \E q \in asks : q.win = w /\ (Keep(q) \/ Proceed(q)) /\ q \notin asks'
<1>1. ~ SessionStep
  <2>1. SessionStep => open' = open /\ asks' = asks
    BY SessionStepSpares DEF winVars, closeVars
  <2> QED BY <2>1 DEF ClosingOf
<1>2. ~ MoveStep
  BY DEF ClosingOf, MoveStep, MoveToWindow, MoveToNewWindow, MoveRefused, winVars, closeVars
<1>3. WindowStep
  BY <1>1, <1>2 DEF Next
<1>4. CASE \E v \in Windows : OpenWindow(v) \/ CloseEmpty(v) \/ Closed(v)
  BY <1>4 DEF ClosingOf, OpenWindow, CloseEmpty, Closed, winVars, closeVars
<1>5. CASE \E v, at \in Windows : AskClose(v, at)
  BY <1>5 DEF ClosingOf, AskClose, winVars
<1>6. CASE \E q \in asks : Confirm(q) \/ Keep(q) \/ Lost(q)
  <2>1. PICK q \in asks : Keep(q) \/ Proceed(q) BY <1>6 DEF Confirm, Lost
  <2>2. asks' = asks \ {q} /\ open' = open BY <2>1 DEF Keep, Proceed, winVars
  <2> QED BY <2>1, <2>2 DEF ClosingOf
<1> QED
  BY <1>3, <1>4, <1>5, <1>6 DEF WindowStep

(* What a closing ends was asked about, or is neither shown by another      *)
(* window nor on its way to one.                                            *)
THEOREM ClosingSpares == Spec => ClosingSparesOthers
<1> DEFINE Spares ==
      \A s \in Sessions \ split, w \in Windows :
        ClosingOf(w) /\ alive[s] = "alive" /\ alive'[s] # "alive"
        => \/ \E q \in asks \ asks' : q.win = w /\ s \in q.ids
           \/ \A v \in open' \ {w} : pane[v][s] # "shown" /\ reserved[s] # v
<1>1. IInv /\ Next => Spares
  <2> SUFFICES ASSUME IInv, Next, NEW s \in Sessions \ split, NEW w \in Windows,
                      ClosingOf(w), alive[s] = "alive", alive'[s] # "alive"
               PROVE  \/ \E q \in asks \ asks' : q.win = w /\ s \in q.ids
                      \/ \A v \in open' \ {w} : pane[v][s] # "shown" /\ reserved[s] # v
    OBVIOUS
  <2>1. CASE Closed(w)
    <3> SUFFICES ASSUME NEW v \in open' \ {w} PROVE pane[v][s] # "shown" /\ reserved[s] # v
      OBVIOUS
    <3>1. v \in Windows /\ v # w
      BY <2>1 DEF Closed, IInv, TypeInv, TypeOK
    <3>2. s \in SessionsOf(w)
      BY <2>1 DEF Closed, Killed
    <3>3. pane[v][s] = "shown" => owner[s] = v /\ reserved[s] = NoWindow
      BY <3>1 DEF IInv, HolderOwns, Holds
    <3> QED
      BY <3>1, <3>2, <3>3, NoWindowIsNone DEF SessionsOf
  <2>2. ASSUME NEW q \in asks, q.win = w, Keep(q) \/ Proceed(q), q \notin asks'
        PROVE  s \in q.ids
    BY <2>2 DEF Keep, Proceed, Killed
  <2> QED
    BY <2>1, <2>2, ClosingStep
<1> QED
  BY <1>1, Invariance, PTL DEF Spec, ClosingSparesOthers

-----------------------------------------------------------------------------
(* Lost prompts settle: the part of it that is not about fairness. *)

\* What a lost prompt asked stays a yes until its window is closed.
StaysYes(q) ==
  /\ q.at \notin open'
  /\ q \in asks' \/ q.win \notin open' \/ q.win \in confirmed'

(* A window id that was closed never opens again, a prompt that went with   *)
(* its window is never answered with no, and a window whose closing was     *)
(* confirmed is closed next, whatever is asked, moved or ends meanwhile.    *)
LostPromptsGetOn ==
  [][/\ \A q \in asks : q.at \notin open => StaysYes(q)
     /\ \A w \in confirmed : w \in confirmed' \/ w \notin open']_vars

LEMMA PromptStep ==
  ASSUME TypeInv, Next
  PROVE  /\ \A w \in Windows \ open : w \in opened => w \notin open'
         /\ \A w \in confirmed : w \in confirmed' \/ w \notin open'
         /\ \A q \in asks : q.at \notin open
              => q \in asks' \/ q.win \notin open \/ q.win \in confirmed'
  <1>1. CASE SessionStep
    <2>1. UNCHANGED winVars /\ UNCHANGED closeVars BY <1>1, SessionStepSpares
    <2> QED BY <2>1 DEF winVars, closeVars
  <1>2. CASE MoveStep
    BY <1>2 DEF MoveStep, MoveToWindow, MoveToNewWindow, MoveRefused, winVars, closeVars
  <1>3. CASE \E w \in Windows : OpenWindow(w) \/ CloseEmpty(w) \/ Closed(w)
    BY <1>3 DEF OpenWindow, CloseEmpty, Closed, winVars, closeVars
  <1>4. CASE \E w, at \in Windows : AskClose(w, at)
    BY <1>4 DEF AskClose, winVars
  <1>5. CASE \E q \in asks : Confirm(q) \/ Keep(q) \/ Lost(q)
    BY <1>5 DEF Confirm, Keep, Lost, Proceed, winVars
  <1> QED BY <1>1, <1>2, <1>3, <1>4, <1>5 DEF Next, WindowStep

\* A prompt is about a window, and in a window, that was opened.
AskedOfOpened == \A q \in asks : q.win \in opened /\ q.at \in opened

LEMMA PromptsOfOpened == TypeInv /\ AskedOfOpened /\ [Next]_vars => AskedOfOpened'
<1> SUFFICES ASSUME TypeInv, AskedOfOpened, [Next]_vars PROVE AskedOfOpened' OBVIOUS
<1> USE DEF AskedOfOpened
<1>1. CASE SessionStep \/ UNCHANGED vars
  <2>1. UNCHANGED winVars /\ UNCHANGED closeVars BY <1>1, SessionStepSpares DEF vars
  <2> QED BY <2>1 DEF winVars, closeVars
<1>5. CASE MoveStep
  <2>1. asks' = asks /\ opened \subseteq opened'
    BY <1>5 DEF MoveStep, MoveToWindow, MoveToNewWindow, MoveRefused, winVars, closeVars
  <2> QED BY <2>1
<1>2. CASE \E w \in Windows : OpenWindow(w) \/ CloseEmpty(w) \/ Closed(w)
  <2>1. asks' = asks /\ opened \subseteq opened'
    BY <1>2 DEF OpenWindow, CloseEmpty, Closed, winVars, closeVars
  <2> QED BY <2>1
<1>3. CASE \E w, at \in Windows : AskClose(w, at)
  <2>1. PICK w \in Windows, at \in Windows : AskClose(w, at) BY <1>3
  <2>2. w \in opened /\ at \in opened /\ opened' = opened
    BY <2>1 DEF AskClose, winVars, TypeInv, TypeOK
  <2> QED BY <2>1, <2>2 DEF AskClose
<1>4. CASE \E q \in asks : Confirm(q) \/ Keep(q) \/ Lost(q)
  BY <1>4 DEF Confirm, Keep, Lost, Proceed, winVars
<1> QED BY <1>1, <1>2, <1>3, <1>4, <1>5 DEF Next, WindowStep

(* Every question that went with its window closes the one it is about, but *)
(* for the moment it takes (the part of LostPromptsSettle that is not about *)
(* fairness).                                                              *)
THEOREM LostPromptsAreSettled == Spec => LostPromptsGetOn
<1>1. TypeInv /\ AskedOfOpened /\ [Next]_vars
      => [/\ \A q \in asks : q.at \notin open => StaysYes(q)
          /\ \A w \in confirmed : w \in confirmed' \/ w \notin open']_vars
  <2> SUFFICES ASSUME TypeInv, AskedOfOpened, Next
               PROVE  /\ \A q \in asks : q.at \notin open => StaysYes(q)
                      /\ \A w \in confirmed : w \in confirmed' \/ w \notin open'
    OBVIOUS
  <2>1. SUFFICES ASSUME NEW q \in asks, q.at \notin open PROVE StaysYes(q)
    BY PromptStep
  <2>2. q.win \in opened /\ q.at \in opened /\ q.win \in Windows /\ q.at \in Windows
    BY DEF AskedOfOpened, TypeInv, TypeOK
  <2>3. q.at \notin open' /\ (q.win \notin open => q.win \notin open')
    BY <2>1, <2>2, PromptStep
  <2> QED BY <2>1, <2>3, PromptStep DEF StaysYes
<1>2. Init => AskedOfOpened BY DEF Init, AskedOfOpened
<1>3. TypeInv /\ AskedOfOpened /\ [Next]_vars => TypeInv' /\ AskedOfOpened'
  BY TypeNext, PromptsOfOpened
<1> QED BY <1>1, <1>2, <1>3, TypeInit, PTL DEF Spec, LostPromptsGetOn
=============================================================================
