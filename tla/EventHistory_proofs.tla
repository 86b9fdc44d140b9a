------------------------- MODULE EventHistory_proofs -------------------------
(***************************************************************************)
(* Theorems about EventHistory for any number of concurrent requests, any  *)
(* players, any bound on the clock, and, unless a theorem says otherwise,  *)
(* any mix of endpoints, with IDs that may coincide and handlers that may  *)
(* stop anywhere.                                                          *)
(***************************************************************************)
EXTENDS EventHistory, TLAPS

\* The steps of one handler.
Step(w) ==
    \/ Roll(w) \/ RollInitiative(w) \/ Reroll(w) \/ ModifyEvent(w)
    \/ EditInitiative(w) \/ Delete(w) \/ ShareEvent(w)
    \/ PostEvent(w) \/ DeleteEvent(w) \/ UpdateEvent(w) \/ Stop(w)

LEMMA NextIsStep == Next <=> \E w \in Workers : Step(w)
  BY DEF Next, Step

\* An event that makeCore builds is well formed.
LEMMA MakeCoreType ==
  ASSUME NEW t \in Time, NEW ty \in Types, NEW p \in Players,
         NEW s \in Shares, NEW n \in Titles
  PROVE  MakeCore(t, ty, p, s, n) \in Event
  BY ConstantsAssumption, SMT DEF MakeCore, Event, Time

\* So is one that ForReroll builds.
LEMMA ForRerollType ==
  ASSUME NEW t \in Time, NEW p \in Players, NEW e \in Event
  PROVE  ForReroll(t, p, e) \in Event
  BY ConstantsAssumption, SMT DEF ForReroll, MakeCore, Event, Time, Types

\* The fields of an event that a handler assigns keep it well formed.
LEMMA EditType ==
  ASSUME NEW e \in Event, NEW t \in Time
  PROVE  [e EXCEPT !.edit = t] \in Event
  BY SMT DEF Event

LEMMA TitleType ==
  ASSUME NEW e \in Event, NEW n \in Titles
  PROVE  [e EXCEPT !.title = n] \in Event
  BY SMT DEF Event

LEMMA ShareType ==
  ASSUME NEW e \in Event, NEW s \in Shares
  PROVE  [e EXCEPT !.share = s] \in Event
  BY SMT DEF Event

LEMMA ModifyType ==
  ASSUME NEW e \in Event, NEW t \in Time, NEW n \in Titles
  PROVE  [e EXCEPT !.edit = t, !.title = n] \in Event
  BY EditType, TitleType, Zenon

\* The client's operations keep its history a set of events.
LEMMA ClientType ==
  ASSUME NEW V \in SUBSET Event, NEW e \in Event, NEW titled \in BOOLEAN
  PROVE  /\ ClientPost(V, e) \in SUBSET Event
         /\ ClientDelete(V, e) \in SUBSET Event
         /\ ClientDiff(V, e, titled) \in SUBSET Event
<1>1. ClientPost(V, e) \in SUBSET Event /\ ClientDelete(V, e) \in SUBSET Event
  BY DEF ClientPost, ClientDelete
<1>2. ASSUME NEW x \in Event
      PROVE  [x EXCEPT !.edit = e.edit,
                       !.title = IF titled THEN e.title ELSE @] \in Event
  <2>1. x.title \in Titles /\ e.title \in Titles /\ e.edit \in Time
    BY DEF Event
  <2>2. (IF titled THEN e.title ELSE x.title) \in Titles
    BY <2>1, Zenon
  <2> QED
    BY <2>1, <2>2, ModifyType, Zenon
<1>3. ClientDiff(V, e, titled) \in SUBSET Event
  BY <1>2 DEF ClientDiff
<1> QED
  BY <1>1, <1>3

\* A handler that starts holds a well-formed job.
LEMMA StartType ==
  ASSUME TypeOK, NEW w \in Workers, NEW op \in Endpoints,
         NEW step \in {"post", "delete", "update"},
         NEW old \in Event, NEW new \in Event, NEW titled \in BOOLEAN,
         Start(w, op, step, old, new, titled)
  PROVE  /\ job' \in [Workers -> Job]
         /\ hist' = hist /\ view' = view
         /\ overheard' = overheard /\ gone' = gone
<1>1. [step |-> step, op |-> op, old |-> old, new |-> new,
       titled |-> titled] \in Job
  BY DEF Job
<1> QED
  BY <1>1 DEF Start, TypeOK

\* A handler between two steps holds a job with these fields.
LEMMA BusyType ==
  ASSUME TypeOK, NEW w \in Workers, job[w].step \in {"post", "delete", "update"}
  PROVE  /\ job[w].old \in Event
         /\ job[w].new \in Event
         /\ job[w].op \in Endpoints
         /\ job[w].titled \in BOOLEAN
         /\ [job[w] EXCEPT !.step = "post"] \in Job
         /\ job[w] # Idle
  BY SMT DEF TypeOK, Job, Idle
\* Who hears of an event, and which roll it shows.
LEMMA HearsType ==
  ASSUME NEW e \in Event
  PROVE  /\ Origin(e) \in Time
         /\ Hears(e) \in SUBSET (Time \X Players)
<1>1. Origin(e) \in Time
  BY DEF Origin, Event
<1>2. Audience(e) \subseteq Players
  BY DEF Audience, Event
<1> QED
  BY <1>1, <1>2 DEF Hears
-----------------------------------------------------------------------------
(* Type correctness. *)

LEMMA InitType == Init => TypeOK
<1> SUFFICES ASSUME Init PROVE TypeOK
  OBVIOUS
<1>1. 0 \in Time
  BY ConstantsAssumption, SMT DEF Time
<1>2. PICK p \in Players, n \in Titles :
        hist = {MakeCore(0, "playerJoin", p, "inGame", n)}
  BY DEF Init
<1>3. hist \subseteq Event
  BY <1>1, <1>2, MakeCoreType DEF Types, Shares
<1>4. Idle \in Job
  BY DEF Job
<1> QED
  BY <1>1, <1>3, <1>4 DEF Init, TypeOK

\* What every handler's first step has in common: it takes a job on, and
\* leaves alone everything but the clock and what was asked for.
LEMMA StartPreservesType ==
  ASSUME TypeOK, NEW w \in Workers, NEW op \in Endpoints,
         NEW step \in {"post", "delete", "update"},
         NEW old \in Event, NEW new \in Event, NEW titled \in BOOLEAN,
         Start(w, op, step, old, new, titled),
         now' \in Time, asked' \subseteq Time \X Players
  PROVE  TypeOK'
<1>1. /\ job' \in [Workers -> Job]
      /\ hist' = hist /\ view' = view
      /\ overheard' = overheard /\ gone' = gone
  BY StartType
<1> QED
  BY <1>1 DEF TypeOK

\* What a player asks for is asked for by players.
LEMMA AskType ==
  ASSUME TypeOK, NEW p \in Players, NEW e \in Event, Ask(p, e)
  PROVE  asked' \subseteq Time \X Players
<1>1. Origin(e) \in Time
  BY HearsType
<1>2. CASE e.share = "inGame"
  BY <1>1, <1>2 DEF Ask, TypeOK
<1>3. CASE e.share # "inGame"
  BY <1>1, <1>3 DEF Ask, TypeOK
<1> QED
  BY <1>2, <1>3

LEMMA StepPreservesType ==
  ASSUME TypeOK, NEW w \in Workers, Step(w)
  PROVE  TypeOK'
<1>0. NewEventID \subseteq Time
  BY DEF NewEventID
<1>1. ASSUME NEW op \in {"roll", "initiative"}, NEW ty \in Types,
             PostNew(w, op, ty)
      PROVE  TypeOK'
  <2>1. PICK p \in Players, s \in Shares, n \in Titles, t \in NewEventID :
          /\ Start(w, op, "post", MakeCore(t, ty, p, s, n),
                   MakeCore(t, ty, p, s, n), FALSE)
          /\ Ask(p, MakeCore(t, ty, p, s, n))
          /\ now' = t
    BY <1>1 DEF PostNew
  <2>2. t \in Time
    BY <1>0
  <2>3. MakeCore(t, ty, p, s, n) \in Event
    BY <2>2, MakeCoreType
  <2>4. asked' \subseteq Time \X Players
    BY <2>1, <2>3, AskType
  <2>5. op \in Endpoints
    BY DEF Endpoints
  <2> QED
    BY <2>1, <2>2, <2>3, <2>4, <2>5, StartPreservesType
<1>2. CASE Roll(w)
  BY <1>1, <1>2 DEF Roll, Types
<1>3. CASE RollInitiative(w)
  BY <1>1, <1>3 DEF RollInitiative, Types
<1>4. CASE Reroll(w)
  <2>1. PICK e \in hist, p \in Players, t \in NewEventID :
          /\ Start(w, "reroll", "delete", e, ForReroll(t, p, e), FALSE)
          /\ asked' = asked \cup {<<e.id, p>>}
          /\ now' = t
    BY <1>4 DEF Reroll, GetByID, At
  <2>2. e \in Event /\ e.id \in Time /\ t \in Time
    BY <1>0 DEF TypeOK, Event
  <2>3. ForReroll(t, p, e) \in Event
    BY <2>2, ForRerollType
  <2>4. asked' \subseteq Time \X Players
    BY <2>1, <2>2 DEF TypeOK
  <2> QED
    BY <2>1, <2>2, <2>3, <2>4, StartPreservesType DEF Endpoints
<1>5. CASE ModifyEvent(w)
  <2>1. PICK e \in hist, p \in Players, n \in Titles, titled \in BOOLEAN,
             t \in NewEventID :
          /\ Start(w, "modify", "update", e,
                   [e EXCEPT !.edit = t, !.title = n], titled)
          /\ now' = t
          /\ asked' = asked
    BY <1>5 DEF ModifyEvent, GetByID, At
  <2>2. e \in Event /\ t \in Time /\ asked' \subseteq Time \X Players
    BY <1>0, <2>1 DEF TypeOK
  <2>3. [e EXCEPT !.edit = t, !.title = n] \in Event
    BY <2>2, ModifyType
  <2> QED
    BY <2>1, <2>2, <2>3, StartPreservesType DEF Endpoints
<1>6. CASE EditInitiative(w)
  <2>1. PICK e \in hist, n \in Titles, t \in NewEventID :
          /\ Start(w, "editInitiative", "update", e,
                   [e EXCEPT !.edit = t, !.title = n], n # e.title)
          /\ now' = t
          /\ asked' = asked
    BY <1>6 DEF EditInitiative, GetByID, At
  <2>2. e \in Event /\ t \in Time /\ asked' \subseteq Time \X Players
    BY <1>0, <2>1 DEF TypeOK
  <2>3. [e EXCEPT !.edit = t, !.title = n] \in Event
    BY <2>2, ModifyType
  <2>4. (n # e.title) \in BOOLEAN
    OBVIOUS
  <2> QED
    BY <2>1, <2>2, <2>3, <2>4, StartPreservesType DEF Endpoints
<1>7. CASE Delete(w)
  <2>1. PICK e \in hist :
          /\ Start(w, "delete", "delete", e, e, FALSE)
          /\ now' = now /\ asked' = asked
    BY <1>7 DEF Delete, GetByID, At
  <2>2. e \in Event /\ now' \in Time /\ asked' \subseteq Time \X Players
    BY <2>1 DEF TypeOK
  <2> QED
    BY <2>1, <2>2, StartPreservesType DEF Endpoints
<1>8. CASE ShareEvent(w)
  <2>1. PICK e \in hist, s \in Shares, p \in Players :
          /\ Start(w, "share", "delete", e, [e EXCEPT !.share = s], FALSE)
          /\ Ask(p, [e EXCEPT !.share = s])
          /\ now' = now
    BY <1>8 DEF ShareEvent, UpdateEventShare, GetByID, At
  <2>2. e \in Event /\ e.id \in Time /\ now' \in Time
    BY <2>1 DEF TypeOK, Event
  <2>3. [e EXCEPT !.share = s] \in Event
    BY <2>2, ShareType
  <2>4. asked' \subseteq Time \X Players
    BY <2>1, <2>3, AskType
  <2> QED
    BY <2>1, <2>2, <2>3, <2>4, StartPreservesType DEF Endpoints
<1>9. CASE PostEvent(w)
  <2>1. job[w].step \in {"post", "delete", "update"}
    BY <1>9 DEF PostEvent
  <2>2. job[w].new \in Event /\ job[w].old \in Event
    BY <2>1, BusyType
  <2>3. job[w].new.id \in Time /\ job[w].old.id \in Time
    BY <2>2 DEF Event
  <2>4. hist' \subseteq Event /\ now' \in Time /\ asked' \subseteq Time \X Players
    BY <1>9, <2>2 DEF PostEvent, TypeOK
  <2>5. view' \in [Players -> SUBSET Event]
    BY <1>9, <2>2, ClientType DEF PostEvent, TypeOK
  <2>6. job' \in [Workers -> Job]
    BY <1>9 DEF PostEvent, TypeOK, Job
  <2>7. overheard' \subseteq Time \X Players
    BY <1>9, <2>2, HearsType DEF PostEvent, Tell, TypeOK
  <2>8. gone' \subseteq Time
    BY <1>9, <2>3 DEF PostEvent, TypeOK
  <2> QED
    BY <2>4, <2>5, <2>6, <2>7, <2>8 DEF TypeOK
<1>10. CASE DeleteEvent(w)
  <2>1. job[w].step \in {"post", "delete", "update"}
    BY <1>10 DEF DeleteEvent
  <2>2. job[w].old \in Event /\ [job[w] EXCEPT !.step = "post"] \in Job
    BY <2>1, BusyType
  <2>3. job[w].old.id \in Time
    BY <2>2 DEF Event
  <2>4. /\ hist' \subseteq Event /\ now' \in Time
        /\ asked' \subseteq Time \X Players
        /\ overheard' \subseteq Time \X Players
    BY <1>10 DEF DeleteEvent, TypeOK
  <2>5. view' \in [Players -> SUBSET Event]
    BY <1>10, <2>2, ClientType DEF DeleteEvent, TypeOK
  <2>6. job' \in [Workers -> Job]
    BY <1>10, <2>2 DEF DeleteEvent, TypeOK, Job
  <2>7. gone' \subseteq Time
    BY <1>10, <2>3 DEF DeleteEvent, TypeOK
  <2> QED
    BY <2>4, <2>5, <2>6, <2>7 DEF TypeOK
<1>11. CASE UpdateEvent(w)
  <2>1. job[w].step \in {"post", "delete", "update"}
    BY <1>11 DEF UpdateEvent
  <2>2. job[w].new \in Event /\ job[w].titled \in BOOLEAN
    BY <2>1, BusyType
  <2>3. job[w].new.id \in Time
    BY <2>2 DEF Event
  <2>4. /\ hist' \subseteq Event /\ now' \in Time
        /\ asked' \subseteq Time \X Players
        /\ gone' \subseteq Time
    BY <1>11, <2>2 DEF UpdateEvent, Replaced, TypeOK
  <2>5. view' \in [Players -> SUBSET Event]
    BY <1>11, <2>2, ClientType DEF UpdateEvent, TypeOK
  <2>6. job' \in [Workers -> Job]
    BY <1>11 DEF UpdateEvent, TypeOK, Job
  <2>7. overheard' \subseteq Time \X Players
    BY <1>11, <2>2, HearsType DEF UpdateEvent, Tell, TypeOK
  <2> QED
    BY <2>4, <2>5, <2>6, <2>7 DEF TypeOK
<1>12. CASE Stop(w)
  BY <1>12 DEF Stop, TypeOK, Job
<1> QED
  BY <1>2, <1>3, <1>4, <1>5, <1>6, <1>7, <1>8, <1>9, <1>10, <1>11, <1>12
  DEF Step

\* The history, the clients, the handlers' copies and the records kept of what
\* was asked for hold well-formed events and IDs.
THEOREM TypeCorrect == Spec => []TypeOK
<1>1. TypeOK /\ [Next]_vars => TypeOK'
  <2> SUFFICES ASSUME TypeOK, [Next]_vars PROVE TypeOK'
    OBVIOUS
  <2>1. CASE Next
    BY <2>1, NextIsStep, StepPreservesType
  <2>2. CASE UNCHANGED vars
    BY <2>2 DEF vars, TypeOK
  <2> QED
    BY <2>1, <2>2
<1> QED
  BY InitType, <1>1, PTL DEF Spec
-----------------------------------------------------------------------------
(* Privacy. *)

\* Everybody who would hear of an event in a handler's hands, as it was read
\* or as it is going to be written, was asked for.
CopiesAsked ==
    \A w \in Workers :
        job[w] # Idle => /\ Hears(job[w].old) \subseteq asked
                         /\ Hears(job[w].new) \subseteq asked

ConfinedInv == PrivateConfined /\ CopiesAsked

LEMMA InitConfined == Init => ConfinedInv
<1> SUFFICES ASSUME Init PROVE ConfinedInv
  OBVIOUS
<1>1. PICK p \in Players, n \in Titles :
        hist = {MakeCore(0, "playerJoin", p, "inGame", n)}
  BY DEF Init
<1>2. Hears(MakeCore(0, "playerJoin", p, "inGame", n)) \subseteq asked
  BY DEF Init, Hears, Origin, Audience, MakeCore
<1> QED
  BY <1>1, <1>2 DEF Init, ConfinedInv, PrivateConfined, CopiesAsked

\* An edit changes neither what an event shows nor to whom.
LEMMA EditHears ==
  ASSUME NEW e \in Event, NEW t \in Time, NEW n \in Titles
  PROVE  Hears([e EXCEPT !.edit = t, !.title = n]) = Hears(e)
<1> DEFINE f == [e EXCEPT !.edit = t, !.title = n]
<1>1. /\ f.id = e.id /\ f.ty = e.ty /\ f.owner = e.owner
      /\ f.share = e.share /\ f.prev = e.prev
  BY DEF Event
<1> HIDE DEF f
<1>2. Hears(f) = Hears(e)
  BY <1>1 DEF Hears, Origin, Audience
<1> QED
  BY <1>2 DEF f

\* Whoever asks for an event to be posted as it is, and owns it, asks for it to
\* be heard of by its audience.
LEMMA AskConfined ==
  ASSUME NEW e \in Event, Ask(e.owner, e)
  PROVE  asked \subseteq asked' /\ Hears(e) \subseteq asked'
  BY DEF Ask, Hears, Audience

\* A handler that starts with copies that were asked for keeps the invariant.
LEMMA StartConfined ==
  ASSUME TypeOK, ConfinedInv,
         NEW w \in Workers, NEW op \in Endpoints,
         NEW step \in {"post", "delete", "update"},
         NEW old \in Event, NEW new \in Event, NEW titled \in BOOLEAN,
         Start(w, op, step, old, new, titled),
         asked \subseteq asked',
         Hears(old) \subseteq asked',
         Hears(new) \subseteq asked'
  PROVE  ConfinedInv'
<1>1. PrivateConfined'
  BY DEF Start, ConfinedInv, PrivateConfined, Hears, Origin, Audience
<1>2. ASSUME NEW v \in Workers, job'[v] # Idle
      PROVE  /\ Hears(job'[v].old) \subseteq asked'
             /\ Hears(job'[v].new) \subseteq asked'
  <2>1. CASE v = w
    <3>1. job'[v].old = old /\ job'[v].new = new
      BY <2>1 DEF Start, TypeOK
    <3> QED
      BY <3>1
  <2>2. CASE v # w
    <3>1. job'[v] = job[v]
      BY <2>2 DEF Start, TypeOK
    <3> QED
      BY <1>2, <3>1 DEF ConfinedInv, CopiesAsked
  <2> QED
    BY <2>1, <2>2
<1>3. CopiesAsked'
  BY <1>2 DEF CopiesAsked, Hears, Origin, Audience
<1> QED
  BY <1>1, <1>3 DEF ConfinedInv

LEMMA StepConfined ==
  ASSUME TypeOK, ConfinedInv, NEW w \in Workers, Step(w)
  PROVE  ConfinedInv'
<1>0. /\ NewEventID \subseteq Time
      /\ hist \subseteq Event
      /\ \A e \in hist : Hears(e) \subseteq asked
  BY DEF NewEventID, TypeOK, ConfinedInv, PrivateConfined
<1>1. ASSUME NEW op \in {"roll", "initiative"}, NEW ty \in Types,
             PostNew(w, op, ty)
      PROVE  ConfinedInv'
  <2>1. PICK p \in Players, s \in Shares, n \in Titles, t \in NewEventID :
          /\ Start(w, op, "post", MakeCore(t, ty, p, s, n),
                   MakeCore(t, ty, p, s, n), FALSE)
          /\ Ask(p, MakeCore(t, ty, p, s, n))
    BY <1>1 DEF PostNew
  <2>2. MakeCore(t, ty, p, s, n) \in Event
    BY <1>0, MakeCoreType
  <2>3. MakeCore(t, ty, p, s, n).owner = p
    BY DEF MakeCore
  <2>4. /\ asked \subseteq asked'
        /\ Hears(MakeCore(t, ty, p, s, n)) \subseteq asked'
    BY <2>1, <2>2, <2>3, AskConfined, Zenon
  <2>5. op \in Endpoints
    BY DEF Endpoints
  <2> QED
    BY <2>1, <2>2, <2>4, <2>5, StartConfined, Zenon
<1>2. CASE Roll(w)
  BY <1>1, <1>2 DEF Roll, Types
<1>3. CASE RollInitiative(w)
  BY <1>1, <1>3 DEF RollInitiative, Types
<1>4. CASE Reroll(w)
  <2>1. PICK e \in hist, p \in Players, t \in NewEventID :
          /\ e.ty = "roll"
          /\ Start(w, "reroll", "delete", e, ForReroll(t, p, e), FALSE)
          /\ asked' = asked \cup {<<e.id, p>>}
    BY <1>4 DEF Reroll, GetByID, At
  <2>2. e \in Event /\ ForReroll(t, p, e) \in Event
    BY <1>0, ForRerollType
  <2>3. /\ ForReroll(t, p, e).share = e.share
        /\ ForReroll(t, p, e).owner = p
        /\ Origin(ForReroll(t, p, e)) = e.id
    BY DEF ForReroll, MakeCore, Origin
  <2>4. asked \subseteq asked' /\ Hears(e) \subseteq asked'
    BY <1>0, <2>1
  <2>5. Origin(e) = e.id
    BY <2>1 DEF Origin
  <2>6. Hears(ForReroll(t, p, e)) \subseteq asked'
    BY <2>1, <2>3, <2>4, <2>5 DEF Hears, Audience
  <2> QED
    BY <2>1, <2>2, <2>4, <2>6, StartConfined, Zenon DEF Endpoints
<1>5. ASSUME NEW e \in hist, NEW n \in Titles, NEW t \in NewEventID,
             NEW titled \in BOOLEAN, NEW op \in Endpoints,
             Start(w, op, "update", e, [e EXCEPT !.edit = t, !.title = n],
                   titled),
             asked' = asked
      PROVE  ConfinedInv'
  <2>1. e \in Event /\ [e EXCEPT !.edit = t, !.title = n] \in Event
    BY <1>0, ModifyType
  <2>2. Hears([e EXCEPT !.edit = t, !.title = n]) = Hears(e)
    BY <1>0, <2>1, EditHears
  <2>3. /\ Hears(e) \subseteq asked' /\ asked \subseteq asked'
        /\ Hears([e EXCEPT !.edit = t, !.title = n]) \subseteq asked'
    BY <1>0, <1>5, <2>2
  <2> QED
    BY <1>5, <2>1, <2>3, StartConfined, Zenon
<1>6. CASE ModifyEvent(w)
  BY <1>5, <1>6 DEF ModifyEvent, GetByID, At, Endpoints
<1>7. CASE EditInitiative(w)
  <2>1. PICK e \in hist, n \in Titles, t \in NewEventID :
          /\ Start(w, "editInitiative", "update", e,
                   [e EXCEPT !.edit = t, !.title = n], n # e.title)
          /\ asked' = asked
    BY <1>7 DEF EditInitiative, GetByID, At
  <2>2. (n # e.title) \in BOOLEAN
    OBVIOUS
  <2>3. "editInitiative" \in Endpoints
    BY DEF Endpoints
  <2> QED
    BY <1>5, <2>1, <2>2, <2>3
<1>8. CASE Delete(w)
  <2>1. PICK e \in hist :
          Start(w, "delete", "delete", e, e, FALSE) /\ asked' = asked
    BY <1>8 DEF Delete, GetByID, At
  <2> QED
    BY <1>0, <2>1, StartConfined DEF Endpoints
<1>9. CASE ShareEvent(w)
  <2>1. PICK e \in hist, s \in Shares, p \in Players :
          /\ e.owner = p
          /\ Start(w, "share", "delete", e, [e EXCEPT !.share = s], FALSE)
          /\ Ask(p, [e EXCEPT !.share = s])
    BY <1>9 DEF ShareEvent, MayChange, UpdateEventShare, GetByID, At
  <2>2. e \in Event /\ [e EXCEPT !.share = s] \in Event
    BY <1>0, ShareType
  <2>3. [e EXCEPT !.share = s].owner = p
    BY <2>1, <2>2 DEF Event
  <2>4. asked \subseteq asked' /\ Hears([e EXCEPT !.share = s]) \subseteq asked'
    BY <2>1, <2>2, <2>3, AskConfined, Zenon
  <2>5. Hears(e) \subseteq asked'
    BY <1>0, <2>4
  <2> QED
    BY <2>1, <2>2, <2>4, <2>5, StartConfined, Zenon DEF Endpoints
<1>10. CASE PostEvent(w)
  <2>1. job[w].new \in Event /\ job[w] # Idle
    BY <1>10, BusyType DEF PostEvent
  <2>2. Hears(job[w].new) \subseteq asked
    BY <2>1 DEF ConfinedInv, CopiesAsked
  <2>3. overheard' \subseteq asked
    BY <1>10, <2>2 DEF PostEvent, Tell, ConfinedInv, PrivateConfined
  <2>4. hist' \subseteq hist \cup {job[w].new} /\ asked' = asked
    BY <1>10 DEF PostEvent
  <2>5. PrivateConfined'
    BY <1>0, <2>2, <2>3, <2>4 DEF PrivateConfined, Hears, Origin, Audience
  <2>6. \A v \in Workers : job'[v] # Idle => job'[v] = job[v]
    BY <1>10 DEF PostEvent, TypeOK
  <2>7. CopiesAsked'
    BY <2>4, <2>6 DEF ConfinedInv, CopiesAsked, Hears, Origin, Audience
  <2> QED
    BY <2>5, <2>7 DEF ConfinedInv
<1>11. CASE DeleteEvent(w)
  <2>1. job[w] # Idle /\ job[w] \in Job
    BY <1>11, BusyType DEF DeleteEvent, TypeOK
  <2>2. PrivateConfined'
    BY <1>11 DEF DeleteEvent, ConfinedInv, PrivateConfined, Hears, Origin, Audience
  <2>3. \/ job'[w] = Idle
        \/ job'[w].old = job[w].old /\ job'[w].new = job[w].new
    <3>1. \/ job'[w] = Idle
          \/ job'[w] = [job[w] EXCEPT !.step = "post"]
      BY <1>11 DEF DeleteEvent, TypeOK
    <3> QED
      BY <2>1, <3>1 DEF Job
  <2>4. \A v \in Workers \ {w} : job'[v] = job[v]
    BY <1>11 DEF DeleteEvent, TypeOK
  <2>5. asked' = asked
    BY <1>11 DEF DeleteEvent
  <2>6. CopiesAsked'
    BY <2>1, <2>3, <2>4, <2>5
    DEF ConfinedInv, CopiesAsked, Hears, Origin, Audience
  <2> QED
    BY <2>2, <2>6 DEF ConfinedInv
<1>12. CASE UpdateEvent(w)
  <2>1. job[w].new \in Event /\ job[w] # Idle
    BY <1>12, BusyType DEF UpdateEvent
  <2>2. Hears(job[w].new) \subseteq asked
    BY <2>1 DEF ConfinedInv, CopiesAsked
  <2>3. overheard' \subseteq asked
    BY <1>12, <2>2 DEF UpdateEvent, Tell, ConfinedInv, PrivateConfined
  <2>4. hist' \subseteq hist \cup {job[w].new} /\ asked' = asked
    BY <1>12 DEF UpdateEvent, Replaced
  <2>5. PrivateConfined'
    BY <1>0, <2>2, <2>3, <2>4 DEF PrivateConfined, Hears, Origin, Audience
  <2>6. \A v \in Workers : job'[v] # Idle => job'[v] = job[v]
    BY <1>12 DEF UpdateEvent, TypeOK
  <2>7. CopiesAsked'
    BY <2>4, <2>6 DEF ConfinedInv, CopiesAsked, Hears, Origin, Audience
  <2> QED
    BY <2>5, <2>7 DEF ConfinedInv
<1>13. CASE Stop(w)
  BY <1>13
  DEF Stop, TypeOK, ConfinedInv, PrivateConfined, CopiesAsked, Hears, Origin,
      Audience
<1> QED
  BY <1>2, <1>3, <1>4, <1>6, <1>7, <1>8, <1>9, <1>10, <1>11, <1>12, <1>13
  DEF Step

\* Whatever requests run concurrently and wherever they stop, a roll nobody who
\* had it asked to be seen in the game stays between the player who rolled it,
\* those who rerolled it by its ID, and the server.
THEOREM PrivateStaysConfined == Spec => []PrivateConfined
<1>1. TypeOK /\ ConfinedInv /\ [Next]_vars => ConfinedInv'
  <2> SUFFICES ASSUME TypeOK, ConfinedInv, [Next]_vars PROVE ConfinedInv'
    OBVIOUS
  <2>1. CASE Next
    BY <2>1, NextIsStep, StepConfined
  <2>2. CASE UNCHANGED vars
    BY <2>2
    DEF vars, ConfinedInv, PrivateConfined, CopiesAsked, Hears, Origin, Audience
  <2> QED
    BY <2>1, <2>2
<1>2. ConfinedInv => PrivateConfined
  BY DEF ConfinedInv
<1> QED
  BY InitConfined, TypeCorrect, <1>1, <1>2, PTL DEF Spec
-----------------------------------------------------------------------------
(* One record per ID.  It takes IDs that never coincide, and that events are *)
(* not both moved (shared) and edited: an edit that read an event before a   *)
(* handler that moves it took it away puts a second one under its ID.        *)

Edits == {"modify", "editInitiative"}

NoMoveWithEdit == Distinct /\ ("share" \in Requests => Requests \cap Edits = {})

NoRecord(i) == \A e \in hist : e.id # i

Busy(w) == job[w] # Idle

\* w is going to post an event whose ID is not in the history.
Brings(w) ==
    /\ Busy(w)
    /\ job[w].step = "post" \/ (job[w].step = "delete" /\ job[w].op = "reroll")

\* What the endpoints make of their jobs.
JobShape(w) ==
    Busy(w) =>
        /\ job[w].op \in Requests
        /\ job[w].step = "update" =>
             job[w].op \in Edits /\ job[w].new.id = job[w].old.id
        /\ job[w].op = "share" => job[w].new.id = job[w].old.id
        /\ job[w].old.id <= now
        /\ job[w].new.id <= now

\* The ID of an event that is going to be posted is w's alone; when the event
\* is new, no other handler has even read it.
Exclusive(w) ==
    Brings(w) =>
        /\ NoRecord(job[w].new.id)
        /\ \A v \in Workers \ {w} :
              /\ Brings(v) => job[v].new.id # job[w].new.id
              /\ Busy(v) /\ job[w].op # "share" =>
                    job[v].new.id # job[w].new.id

RecordInv ==
    /\ OneRecordPerId
    /\ \A e \in hist : e.id <= now
    /\ \A w \in Workers : JobShape(w) /\ Exclusive(w)

LEMMA InitRecord == Init => RecordInv
<1> SUFFICES ASSUME Init PROVE RecordInv
  OBVIOUS
<1>1. PICK p \in Players, n \in Titles :
        hist = {MakeCore(0, "playerJoin", p, "inGame", n)}
  BY DEF Init
<1>2. \A e \in hist : e.id = 0
  BY <1>1 DEF MakeCore
<1>3. OneRecordPerId
  BY <1>1 DEF OneRecordPerId
<1>4. now = 0 /\ \A w \in Workers : ~ Busy(w)
  BY DEF Init, Busy
<1> QED
  BY <1>2, <1>3, <1>4, SMT DEF RecordInv, JobShape, Exclusive, Brings

\* What a first step leaves alone, and what the handler then holds.
LEMMA StartEffect ==
  ASSUME TypeOK, NEW w \in Workers, NEW op \in Endpoints,
         NEW step \in {"post", "delete", "update"},
         NEW old \in Event, NEW new \in Event, NEW titled \in BOOLEAN,
         Start(w, op, step, old, new, titled)
  PROVE  /\ op \in Requests /\ ~ Busy(w) /\ hist' = hist
         /\ Busy(w)'
         /\ job'[w].op = op /\ job'[w].step = step
         /\ job'[w].old = old /\ job'[w].new = new
         /\ \A v \in Workers \ {w} : job'[v] = job[v]
<1>1. job'[w] = [step |-> step, op |-> op, old |-> old, new |-> new,
                 titled |-> titled]
  BY DEF Start, TypeOK
<1>2. job'[w].op = op /\ job'[w].step = step
      /\ job'[w].old = old /\ job'[w].new = new
  BY <1>1
<1>3. Busy(w)'
  BY <1>2 DEF Busy, Idle
<1> QED
  BY <1>2, <1>3 DEF Start, TypeOK, Busy

\* A handler that draws a new ID brings an event nobody knows.
LEMMA StartFresh ==
  ASSUME TypeOK, RecordInv, NoMoveWithEdit, NEW w \in Workers,
         NEW t \in NewEventID, now' = t,
         NEW op \in {"roll", "initiative", "reroll"},
         NEW step \in {"post", "delete"},
         step = "delete" => op = "reroll",
         NEW old \in Event, NEW new \in Event,
         NEW titled \in BOOLEAN,
         new.id = t, old.id <= t,
         Start(w, op, step, old, new, titled)
  PROVE  RecordInv'
<1>1. t \in Nat /\ now \in Nat /\ t > now
  BY ConstantsAssumption DEF NewEventID, NoMoveWithEdit, TypeOK, Time
<1>2. /\ op \in Endpoints
      /\ step \in {"post", "delete", "update"}
  BY DEF Endpoints
<1>3. /\ op \in Requests /\ ~ Busy(w) /\ hist' = hist
      /\ Busy(w)'
      /\ job'[w].op = op /\ job'[w].step = step
      /\ job'[w].old = old /\ job'[w].new = new
      /\ \A v \in Workers \ {w} : job'[v] = job[v]
  BY <1>2, StartEffect
<1>4. \A e \in hist : e.id \in Nat /\ e.id <= now
  BY ConstantsAssumption, SMT DEF TypeOK, Event, Time, RecordInv
<1>5. \A v \in Workers : Busy(v) =>
          /\ job[v].new.id \in Nat /\ job[v].new.id <= now
          /\ job[v].old.id \in Nat /\ job[v].old.id <= now
  BY ConstantsAssumption, SMT
  DEF TypeOK, Job, Event, Time, RecordInv, JobShape, Busy
<1>6. OneRecordPerId' /\ \A e \in hist' : e.id <= now'
  BY <1>1, <1>3, <1>4, SMT DEF OneRecordPerId, RecordInv
<1>7. \A e \in hist' : e.id # t
  BY <1>1, <1>3, <1>4, SMT
<1>8. \A v \in Workers \ {w} :
         /\ Busy(v)' <=> Busy(v)
         /\ Brings(v)' <=> Brings(v)
         /\ Brings(v) => Busy(v)
         /\ Busy(v) => job[v].new.id # t
  BY <1>1, <1>3, <1>5, SMT DEF Busy, Brings
<1>9. Exclusive(w)'
  BY <1>3, <1>7, <1>8 DEF Exclusive, NoRecord
<1>10. JobShape(w)'
  BY <1>1, <1>3 DEF JobShape, Edits
<1>11. ASSUME NEW v \in Workers \ {w} PROVE JobShape(v)' /\ Exclusive(v)'
  <2>1. JobShape(v) /\ Exclusive(v) /\ job'[v] = job[v]
    BY <1>3 DEF RecordInv
  <2>2. JobShape(v)'
    BY <1>1, <1>5, <1>8, <2>1, SMT DEF JobShape
  <2>3. ASSUME Brings(v)'
        PROVE  /\ \A e \in hist' : e.id # job'[v].new.id
               /\ \A u \in Workers \ {v} :
                     /\ Brings(u)' => job'[u].new.id # job'[v].new.id
                     /\ Busy(u)' /\ job'[v].op # "share" =>
                           job'[u].new.id # job'[v].new.id
    <3>1. Brings(v) /\ Busy(v)
      BY <1>8, <2>3 DEF Brings
    <3>2. \A e \in hist' : e.id # job'[v].new.id
      BY <1>3, <2>1, <3>1 DEF Exclusive, NoRecord
    <3>3. ASSUME NEW u \in Workers \ {v}
          PROVE  /\ Brings(u)' => job'[u].new.id # job'[v].new.id
                 /\ Busy(u)' /\ job'[v].op # "share" =>
                       job'[u].new.id # job'[v].new.id
      <4>1. CASE u = w
        BY <1>3, <1>8, <2>1, <3>1, <4>1
      <4>2. CASE u # w
        <5>1. u \in Workers \ {w} /\ job'[u] = job[u]
          BY <1>3, <4>2
        <5> QED
          BY <1>8, <2>1, <3>1, <5>1 DEF Exclusive
      <4> QED
        BY <4>1, <4>2
    <3> QED
      BY <3>2, <3>3
  <2>4. Exclusive(v)'
    BY <2>3 DEF Exclusive, NoRecord
  <2> QED
    BY <2>2, <2>4
<1> QED
  BY <1>6, <1>9, <1>10, <1>11 DEF RecordInv
\* A handler that starts on an event of the history, and brings nothing yet.
LEMMA StartOnRecord ==
  ASSUME TypeOK, RecordInv, NoMoveWithEdit, NEW w \in Workers,
         now' \in Nat, now <= now',
         NEW op \in {"modify", "editInitiative", "delete", "share"},
         NEW step \in {"delete", "update"},
         step = "update" => op \in Edits,
         NEW e \in hist, NEW new \in Event, NEW titled \in BOOLEAN,
         new.id = e.id,
         Start(w, op, step, e, new, titled)
  PROVE  RecordInv'
<1>1. op \in Endpoints /\ step \in {"post", "delete", "update"} /\ e \in Event
  BY DEF Endpoints, TypeOK
<1>2. /\ op \in Requests /\ ~ Busy(w) /\ hist' = hist
      /\ Busy(w)'
      /\ job'[w].op = op /\ job'[w].step = step
      /\ job'[w].old = e /\ job'[w].new = new
      /\ \A v \in Workers \ {w} : job'[v] = job[v]
  BY <1>1, StartEffect
<1>3. now \in Nat /\ now' \in Nat /\ now <= now'
  BY ConstantsAssumption DEF TypeOK, Time
<1>4. \A f \in hist : f.id \in Nat /\ f.id <= now
  BY ConstantsAssumption, SMT DEF TypeOK, Event, Time, RecordInv
<1>5. \A v \in Workers : Busy(v) =>
          /\ job[v].new.id \in Nat /\ job[v].new.id <= now
          /\ job[v].old.id \in Nat /\ job[v].old.id <= now
  BY ConstantsAssumption, SMT
  DEF TypeOK, Job, Event, Time, RecordInv, JobShape, Busy
<1>6. OneRecordPerId' /\ \A f \in hist' : f.id <= now'
  BY <1>2, <1>3, <1>4, SMT DEF OneRecordPerId, RecordInv
<1>7. ~ Brings(w)'
  BY <1>2 DEF Brings
<1>8. \A v \in Workers \ {w} :
         /\ Busy(v)' <=> Busy(v)
         /\ Brings(v)' <=> Brings(v)
         /\ Brings(v) => Busy(v)
  BY <1>2 DEF Busy, Brings
<1>9. JobShape(w)'
  <2>1. e.id <= now' /\ new.id <= now'
    BY <1>3, <1>4
  <2> QED
    BY <1>2, <2>1 DEF JobShape, Edits
<1>10. ASSUME NEW v \in Workers \ {w} PROVE JobShape(v)' /\ Exclusive(v)'
  <2>1. JobShape(v) /\ Exclusive(v) /\ job'[v] = job[v]
    BY <1>2 DEF RecordInv
  <2>2. JobShape(v)'
    BY <1>3, <1>5, <1>8, <2>1, SMT DEF JobShape
  <2>3. ASSUME Brings(v)'
        PROVE  /\ \A f \in hist' : f.id # job'[v].new.id
               /\ \A u \in Workers \ {v} :
                     /\ Brings(u)' => job'[u].new.id # job'[v].new.id
                     /\ Busy(u)' /\ job'[v].op # "share" =>
                           job'[u].new.id # job'[v].new.id
    <3>1. Brings(v) /\ Busy(v)
      BY <1>8, <2>3 DEF Brings
    <3>2. \A f \in hist' : f.id # job'[v].new.id
      BY <1>2, <2>1, <3>1 DEF Exclusive, NoRecord
    <3>3. ASSUME NEW u \in Workers \ {v}
          PROVE  /\ Brings(u)' => job'[u].new.id # job'[v].new.id
                 /\ Busy(u)' /\ job'[v].op # "share" =>
                       job'[u].new.id # job'[v].new.id
      <4>1. CASE u = w
        BY <1>2, <3>2, <4>1
      <4>2. CASE u # w
        <5>1. u \in Workers \ {w} /\ job'[u] = job[u]
          BY <1>2, <4>2
        <5> QED
          BY <1>8, <2>1, <3>1, <5>1 DEF Exclusive
      <4> QED
        BY <4>1, <4>2
    <3> QED
      BY <3>2, <3>3
  <2>4. Exclusive(v)'
    BY <2>3 DEF Exclusive, NoRecord
  <2> QED
    BY <2>2, <2>4
<1>11. Exclusive(w)'
  BY <1>7 DEF Exclusive
<1> QED
  BY <1>6, <1>9, <1>10, <1>11 DEF RecordInv

\* A handler that is done leaves the others' jobs as they are; it is enough
\* that the IDs they bring are still not in the history.
LEMMA FinishRecord ==
  ASSUME TypeOK, RecordInv, NEW w \in Workers,
         job' = [job EXCEPT ![w] = Idle], now' = now,
         OneRecordPerId', \A e \in hist' : e.id <= now,
         \A v \in Workers \ {w} :
            Brings(v) => \A e \in hist' : e.id # job[v].new.id
  PROVE  RecordInv'
<1>1. /\ job'[w] = Idle
      /\ \A v \in Workers \ {w} : job'[v] = job[v]
  BY DEF TypeOK
<1>2. ~ Busy(w)' /\ ~ Brings(w)'
  BY <1>1 DEF Busy, Brings
<1>3. \A v \in Workers \ {w} :
         (Busy(v)' <=> Busy(v)) /\ (Brings(v)' <=> Brings(v))
  BY <1>1 DEF Busy, Brings
<1>4. JobShape(w)' /\ Exclusive(w)'
  BY <1>2 DEF JobShape, Exclusive
<1>5. ASSUME NEW v \in Workers \ {w} PROVE JobShape(v)' /\ Exclusive(v)'
  <2>1. JobShape(v) /\ Exclusive(v) /\ job'[v] = job[v]
    BY <1>1 DEF RecordInv
  <2>2. JobShape(v)'
    BY <1>3, <2>1 DEF JobShape
  <2>3. Exclusive(v)'
    BY <1>1, <1>2, <1>3, <2>1 DEF Exclusive, NoRecord
  <2> QED
    BY <2>2, <2>3
<1> QED
  BY <1>4, <1>5 DEF RecordInv
LEMMA StepRecord ==
  ASSUME TypeOK, RecordInv, NoMoveWithEdit, NEW w \in Workers, Step(w)
  PROVE  RecordInv'
<1>0. /\ hist \subseteq Event
      /\ now \in Nat
      /\ \A t \in NewEventID : t \in Time /\ t \in Nat /\ now < t
      /\ \A e \in hist : e.id \in Nat /\ e.id <= now
      /\ JobShape(w) /\ Exclusive(w)
  BY ConstantsAssumption, SMT
  DEF TypeOK, Event, Time, RecordInv, NewEventID, NoMoveWithEdit
<1>1. ASSUME NEW op \in {"roll", "initiative"}, NEW ty \in Types,
             PostNew(w, op, ty)
      PROVE  RecordInv'
  <2>1. PICK p \in Players, s \in Shares, n \in Titles, t \in NewEventID :
          /\ Start(w, op, "post", MakeCore(t, ty, p, s, n),
                   MakeCore(t, ty, p, s, n), FALSE)
          /\ now' = t
    BY <1>1 DEF PostNew
  <2>2. MakeCore(t, ty, p, s, n) \in Event
    BY <1>0, MakeCoreType
  <2>3. MakeCore(t, ty, p, s, n).id = t
    BY DEF MakeCore
  <2>4. t <= t
    BY <1>0
  <2> QED
    BY <2>1, <2>2, <2>3, <2>4, StartFresh
<1>2. CASE Roll(w)
  BY <1>1, <1>2 DEF Roll, Types
<1>3. CASE RollInitiative(w)
  BY <1>1, <1>3 DEF RollInitiative, Types
<1>4. CASE Reroll(w)
  <2>1. PICK e \in hist, p \in Players, t \in NewEventID :
          /\ Start(w, "reroll", "delete", e, ForReroll(t, p, e), FALSE)
          /\ now' = t
    BY <1>4 DEF Reroll, GetByID, At
  <2>2. e \in Event /\ ForReroll(t, p, e) \in Event
    BY <1>0, ForRerollType
  <2>3. ForReroll(t, p, e).id = t /\ e.id <= t
    BY <1>0, SMT DEF ForReroll, MakeCore
  <2> QED
    BY <2>1, <2>2, <2>3, StartFresh
<1>5. ASSUME NEW e \in hist, NEW n \in Titles, NEW t \in NewEventID,
             NEW titled \in BOOLEAN, NEW op \in Edits,
             Start(w, op, "update", e, [e EXCEPT !.edit = t, !.title = n],
                   titled),
             now' = t
      PROVE  RecordInv'
  <2>1. e \in Event /\ [e EXCEPT !.edit = t, !.title = n] \in Event
    BY <1>0, ModifyType
  <2>2. [e EXCEPT !.edit = t, !.title = n].id = e.id
    BY <2>1 DEF Event
  <2>3. now' \in Nat /\ now <= now'
    BY <1>0, <1>5
  <2> QED
    BY <1>5, <2>1, <2>2, <2>3, StartOnRecord DEF Edits
<1>6. CASE ModifyEvent(w)
  BY <1>5, <1>6 DEF ModifyEvent, GetByID, At, Edits
<1>7. CASE EditInitiative(w)
  <2>1. PICK e \in hist, n \in Titles, t \in NewEventID :
          /\ Start(w, "editInitiative", "update", e,
                   [e EXCEPT !.edit = t, !.title = n], n # e.title)
          /\ now' = t
    BY <1>7 DEF EditInitiative, GetByID, At
  <2>2. (n # e.title) \in BOOLEAN /\ "editInitiative" \in Edits
    BY DEF Edits
  <2> QED
    BY <1>5, <2>1, <2>2
<1>8. CASE Delete(w)
  <2>1. PICK e \in hist :
          Start(w, "delete", "delete", e, e, FALSE) /\ now' = now
    BY <1>8 DEF Delete, GetByID, At
  <2>2. e \in Event /\ now' \in Nat /\ now <= now'
    BY <1>0, <2>1
  <2> QED
    BY <2>1, <2>2, StartOnRecord
<1>9. CASE ShareEvent(w)
  <2>1. PICK e \in hist, s \in Shares :
          /\ Start(w, "share", "delete", e, [e EXCEPT !.share = s], FALSE)
          /\ now' = now
    BY <1>9 DEF ShareEvent, UpdateEventShare, GetByID, At
  <2>2. e \in Event /\ [e EXCEPT !.share = s] \in Event
    BY <1>0, ShareType
  <2>3. [e EXCEPT !.share = s].id = e.id /\ now' \in Nat /\ now <= now'
    BY <1>0, <2>1, <2>2 DEF Event
  <2> QED
    BY <2>1, <2>2, <2>3, StartOnRecord
<1>10. CASE PostEvent(w)
  <2>1. Busy(w) /\ Brings(w)
    BY <1>10, BusyType DEF PostEvent, Busy, Brings
  <2>2. /\ NoRecord(job[w].new.id) /\ job[w].new.id <= now
        /\ \A v \in Workers \ {w} :
              Brings(v) => job[v].new.id # job[w].new.id
    BY <1>0, <2>1 DEF Exclusive, JobShape
  <2>3. /\ hist' = hist \cup {job[w].new}
        /\ job' = [job EXCEPT ![w] = Idle] /\ now' = now
    BY <1>10 DEF PostEvent
  <2>4. OneRecordPerId' /\ \A e \in hist' : e.id <= now
    BY <1>0, <2>2, <2>3 DEF OneRecordPerId, NoRecord, RecordInv
  <2>5. \A v \in Workers \ {w} :
           Brings(v) => \A e \in hist' : e.id # job[v].new.id
    BY <2>2, <2>3 DEF RecordInv, Exclusive, NoRecord
  <2> QED
    BY <2>3, <2>4, <2>5, FinishRecord
<1>11. CASE DeleteEvent(w)
  <2>1. Busy(w) /\ job[w] \in Job /\ job[w].step = "delete"
    BY <1>11, BusyType DEF DeleteEvent, Busy, TypeOK
  <2>2. hist' = hist \ At(job[w].old.id) /\ now' = now
    BY <1>11 DEF DeleteEvent
  <2>3. OneRecordPerId' /\ \A e \in hist' : e.id <= now
    BY <1>0, <2>2 DEF OneRecordPerId, RecordInv
  <2>4. \A v \in Workers :
           Brings(v) => \A e \in hist' : e.id # job[v].new.id
    BY <2>2 DEF RecordInv, Exclusive, NoRecord
  <2>5. CASE job' = [job EXCEPT ![w] = Idle]
    BY <2>2, <2>3, <2>4, <2>5, FinishRecord
  <2>6. CASE /\ job[w].op \in {"share", "reroll"} /\ DeletedOne(job[w].old)
             /\ job' = [job EXCEPT ![w] = [@ EXCEPT !.step = "post"]]
    <3>1. /\ job'[w].op = job[w].op /\ job'[w].step = "post"
          /\ job'[w].old = job[w].old /\ job'[w].new = job[w].new
          /\ Busy(w)' /\ Brings(w)'
          /\ \A v \in Workers \ {w} : job'[v] = job[v]
      <4>1. job'[w] = [job[w] EXCEPT !.step = "post"]
        BY <2>6 DEF TypeOK
      <4>2. /\ job'[w].op = job[w].op /\ job'[w].step = "post"
            /\ job'[w].old = job[w].old /\ job'[w].new = job[w].new
        BY <2>1, <4>1 DEF Job, Busy
      <4>3. Busy(w)' /\ Brings(w)'
        BY <4>2 DEF Busy, Brings, Idle
      <4> QED
        BY <2>6, <4>2, <4>3 DEF TypeOK
    <3>2. \A v \in Workers \ {w} :
             /\ Busy(v)' <=> Busy(v)
             /\ Brings(v)' <=> Brings(v)
             /\ Brings(v) => Busy(v)
      BY <3>1 DEF Busy, Brings
    <3>3. PICK g \in hist : At(job[w].old.id) = {g} /\ g.id = job[w].old.id
      BY <2>6 DEF DeletedOne, At
    <3>4. CASE job[w].op = "share"
      <4>1. job[w].new.id = job[w].old.id
        BY <1>0, <2>1, <3>4 DEF JobShape
      <4>2. \A e \in hist' : e.id # job[w].new.id
        BY <2>2, <4>1 DEF At
      <4>3. \A v \in Workers \ {w} :
               Brings(v) => job[v].new.id # job[w].new.id
        BY <3>3, <4>1 DEF RecordInv, Exclusive, NoRecord
      <4>4. JobShape(w)' /\ Exclusive(w)'
        BY <1>0, <2>1, <2>2, <3>1, <3>2, <3>4, <4>2, <4>3
        DEF JobShape, Exclusive, NoRecord
      <4>5. ASSUME NEW v \in Workers \ {w} PROVE JobShape(v)' /\ Exclusive(v)'
        <5>1. JobShape(v) /\ Exclusive(v) /\ job'[v] = job[v]
          BY <3>1 DEF RecordInv
        <5>2. JobShape(v)'
          BY <2>2, <3>2, <5>1 DEF JobShape
        <5>3. Exclusive(v)'
          BY <2>4, <3>1, <3>2, <4>3, <5>1 DEF Exclusive, NoRecord
        <5> QED
          BY <5>2, <5>3
      <4> QED
        BY <2>2, <2>3, <4>4, <4>5 DEF RecordInv
    <3>5. CASE job[w].op = "reroll"
      <4>1. Brings(w)
        BY <2>1, <3>5 DEF Brings
      <4>2. \A e \in hist' : e.id # job[w].new.id
        BY <2>4, <4>1
      <4>3. JobShape(w)' /\ Exclusive(w)'
        BY <1>0, <2>1, <2>2, <3>1, <3>2, <3>5, <4>1, <4>2
        DEF JobShape, Exclusive, NoRecord
      <4>4. ASSUME NEW v \in Workers \ {w} PROVE JobShape(v)' /\ Exclusive(v)'
        <5>1. JobShape(v) /\ Exclusive(v) /\ job'[v] = job[v]
          BY <3>1 DEF RecordInv
        <5>2. JobShape(v)'
          BY <2>2, <3>2, <5>1 DEF JobShape
        <5>3. Exclusive(v)'
          BY <2>4, <2>1, <3>1, <3>2, <4>1, <5>1 DEF Exclusive, NoRecord
        <5> QED
          BY <5>2, <5>3
      <4> QED
        BY <2>2, <2>3, <4>3, <4>4 DEF RecordInv
    <3> QED
      BY <2>6, <3>4, <3>5
  <2> QED
    BY <1>11, <2>5, <2>6 DEF DeleteEvent
<1>12. CASE UpdateEvent(w)
  <2>1. Busy(w) /\ job[w].step = "update"
    BY <1>12, BusyType DEF UpdateEvent, Busy
  <2>2. /\ hist' = (hist \ At(job[w].new.id)) \cup {job[w].new}
        /\ job' = [job EXCEPT ![w] = Idle] /\ now' = now
    BY <1>12 DEF UpdateEvent, Replaced
  <2>3. job[w].new.id <= now /\ job[w].op \in Edits \cap Requests
    BY <1>0, <2>1 DEF JobShape
  <2>4. OneRecordPerId' /\ \A e \in hist' : e.id <= now
    BY <1>0, <2>2, <2>3 DEF OneRecordPerId, At, RecordInv
  <2>5. ASSUME NEW v \in Workers \ {w}, Brings(v)
        PROVE  \A e \in hist' : e.id # job[v].new.id
    <3>1. JobShape(v) /\ Exclusive(v) /\ Busy(v)
      BY <2>5 DEF RecordInv, Brings
    <3>2. job[v].op # "share"
      BY <2>3, <3>1 DEF JobShape, NoMoveWithEdit
    <3>3. job[w].new.id # job[v].new.id
      BY <2>1, <2>5, <3>1, <3>2 DEF Exclusive
    <3> QED
      BY <2>2, <2>5, <3>1, <3>3 DEF Exclusive, NoRecord
  <2> QED
    BY <2>2, <2>4, <2>5, FinishRecord
<1>13. CASE Stop(w)
  <2>1. job' = [job EXCEPT ![w] = Idle] /\ now' = now /\ hist' = hist
    BY <1>13 DEF Stop
  <2>2. OneRecordPerId' /\ \A e \in hist' : e.id <= now
    BY <1>0, <2>1 DEF OneRecordPerId, RecordInv
  <2>3. \A v \in Workers \ {w} :
           Brings(v) => \A e \in hist' : e.id # job[v].new.id
    BY <2>1 DEF RecordInv, Exclusive, NoRecord
  <2> QED
    BY <2>1, <2>2, <2>3, FinishRecord
<1> QED
  BY <1>2, <1>3, <1>4, <1>6, <1>7, <1>8, <1>9, <1>10, <1>11, <1>12, <1>13
  DEF Step

\* When IDs do not coincide, and the share of an event is not changed while
\* events are being edited, an ID names at most one event: however many
\* requests for it run at once, and whichever of them stop halfway.
THEOREM OneRecord ==
  ASSUME NoMoveWithEdit
  PROVE  Spec => []OneRecordPerId
<1>1. TypeOK /\ RecordInv /\ [Next]_vars => RecordInv'
  <2> SUFFICES ASSUME TypeOK, RecordInv, [Next]_vars PROVE RecordInv'
    OBVIOUS
  <2>1. CASE Next
    BY <2>1, NextIsStep, StepRecord
  <2>2. CASE UNCHANGED vars
    BY <2>2
    DEF vars, RecordInv, OneRecordPerId, JobShape, Exclusive, Brings, Busy,
        NoRecord
  <2> QED
    BY <2>1, <2>2
<1>2. RecordInv => OneRecordPerId
  BY DEF RecordInv
<1> QED
  BY InitRecord, TypeCorrect, <1>1, <1>2, PTL DEF Spec
-----------------------------------------------------------------------------
(* The board of AtomicHistory.  It takes IDs that never coincide, and that   *)
(* edits are not mixed with other requests for the same history: there are   *)
(* none, or requests are served one at a time.                               *)

Alone == \A u, v \in Workers : u = v

EditsAlone == Distinct /\ (Alone \/ Requests \cap Edits = {})

\* w has deleted an event and is about to post it again, or its reroll.
Carries(w) ==
    /\ Busy(w)
    /\ job[w].step = "post" /\ job[w].op \in {"share", "reroll"}

Board == hist \cup Carried

Off(i) == \A e \in Board : e.id # i

\* Two copies of one event, which may have been shared between the two.
Alike(e, f) ==
    /\ e.id = f.id /\ e.ty = f.ty /\ e.owner = f.owner
    /\ e.title = f.title /\ e.edit = f.edit /\ e.prev = f.prev

\* What each endpoint holds.
Shape(w) ==
    LET old == job[w].old
        new == job[w].new
    IN
    Busy(w) =>
        /\ job[w].op \in Requests
        /\ job[w].op \in {"roll", "initiative"} =>
              /\ job[w].step = "post"
              /\ new = old /\ new.edit = 0
              /\ new.ty \notin {"playerJoin", "rerollFailures"}
        /\ job[w].op = "reroll" =>
              /\ job[w].step \in {"delete", "post"}
              /\ old.ty = "roll" /\ new.ty = "rerollFailures"
              /\ new.prev = old.id
              /\ new.share = old.share /\ new.title = old.title
        /\ job[w].op = "share" =>
              /\ job[w].step \in {"delete", "post"}
              /\ old.ty # "playerJoin"
              /\ new = [old EXCEPT !.share = new.share]
        /\ job[w].op = "delete" =>
              /\ job[w].step = "delete"
              /\ old.ty # "playerJoin"
        /\ job[w].op \in Edits =>
              /\ job[w].step = "update"
              /\ old \in hist /\ old.ty # "playerJoin"
              /\ new.id = old.id /\ new.ty = old.ty /\ new.owner = old.owner
              /\ new.share = old.share /\ new.prev = old.prev

\* The clock is ahead of every ID that was drawn.
Drawn ==
    /\ \A e \in Board : e.id <= now
    /\ \A i \in gone : i <= now
    /\ \A w \in Workers :
          Busy(w) => job[w].old.id <= now /\ job[w].new.id <= now

\* The ID of an event that is going to be posted is not of one that is gone;
\* nobody but w knows that of a new one.
Bringing(w) ==
    Brings(w) =>
        /\ job[w].new.id \notin gone
        /\ job[w].op # "share" =>
              /\ Off(job[w].new.id)
              /\ \A v \in Workers \ {w} :
                    Busy(v) => /\ job[v].old.id # job[w].new.id
                               /\ job[v].new.id # job[w].new.id

\* What w carries is nowhere else.
Carrying(w) ==
    Carries(w) =>
        /\ NoRecord(job[w].old.id)
        /\ \A v \in Workers \ {w} :
              Carries(v) => job[v].old.id # job[w].old.id

\* A copy is of the event that has its ID, but for its share.
Copied(w) ==
    Busy(w) => \A e \in Board : e.id = job[w].old.id => Alike(e, job[w].old)

\* An ID names one event of the board, which is not gone.
OnBoard ==
    /\ \A e, f \in Board : e.id = f.id => e = f
    /\ \A i \in gone : Off(i)

\* What was rerolled is gone, and was rerolled once.
Rerolled ==
    \A e, f \in Board :
        e.ty = "rerollFailures" =>
            /\ e.prev \in gone
            /\ f.ty = "rerollFailures" /\ f.prev = e.prev => f.id = e.id

BoardInv ==
    /\ Drawn /\ OnBoard /\ Rerolled
    /\ \A w \in Workers :
          Shape(w) /\ Bringing(w) /\ Carrying(w) /\ Copied(w)

LEMMA CarriedBy == \A e : e \in Carried <=>
                      \E w \in Workers : Carries(w) /\ e = job[w].old
  BY DEF Carried, Carries, Busy, Idle

LEMMA AlikeSame ==
  ASSUME NEW e, NEW f, NEW g, Alike(e, f), Alike(g, f)
  PROVE  Alike(e, e) /\ Alike(e, g)
  BY DEF Alike

\* The clock and the IDs are numbers.
LEMMA Numbers ==
  ASSUME TypeOK
  PROVE  /\ now \in Nat /\ gone \subseteq Nat
         /\ \A e \in hist : e.id \in Nat
         /\ \A w \in Workers :
               Busy(w) => job[w].old.id \in Nat /\ job[w].new.id \in Nat
         /\ \A e \in Board : e \in Event /\ e.id \in Nat
<1>1. Time \subseteq Nat
  BY ConstantsAssumption DEF Time
<1>2. \A e \in Event : e.id \in Nat
  BY <1>1 DEF Event
<1>3. \A w \in Workers : Busy(w) => job[w].old \in Event /\ job[w].new \in Event
  BY DEF TypeOK, Job, Busy
<1>4. \A e \in Board : e \in Event
  BY <1>3, CarriedBy DEF Board, TypeOK, Carries
<1> QED
  BY <1>1, <1>2, <1>3, <1>4 DEF TypeOK

\* A handler takes a request on.
Begun(w, op, step, old, new) ==
    /\ op \in Requests
    /\ ~ Busy(w) /\ Busy(w)'
    /\ job'[w].op = op /\ job'[w].step = step
    /\ job'[w].old = old /\ job'[w].new = new
    /\ \A v \in Workers \ {w} : job'[v] = job[v]
    /\ hist' = hist /\ gone' = gone

LEMMA StartIsBegun ==
  ASSUME TypeOK, NEW w \in Workers, NEW op \in Endpoints,
         NEW step \in {"post", "delete", "update"},
         NEW old \in Event, NEW new \in Event, NEW titled \in BOOLEAN,
         Start(w, op, step, old, new, titled)
  PROVE  Begun(w, op, step, old, new)
<1>1. gone' = gone
  BY DEF Start
<1> QED
  BY <1>1, StartEffect DEF Begun

\* Beginning anything but the second half of a move leaves the board alone.
LEMMA BegunBoard ==
  ASSUME NEW w \in Workers, NEW op, NEW step, NEW old, NEW new,
         Begun(w, op, step, old, new),
         step = "post" => op \notin {"share", "reroll"}
  PROVE  /\ ~ Carries(w) /\ ~ Carries(w)'
         /\ \A v \in Workers \ {w} :
               /\ Busy(v)' <=> Busy(v)
               /\ Brings(v)' <=> Brings(v)
               /\ Carries(v)' <=> Carries(v)
         /\ Carried' = Carried /\ Board' = Board
<1>1. ~ Carries(w) /\ ~ Carries(w)'
  BY DEF Begun, Carries
<1>2. \A v \in Workers \ {w} :
         /\ Busy(v)' <=> Busy(v)
         /\ Brings(v)' <=> Brings(v)
         /\ Carries(v)' <=> Carries(v)
  BY DEF Begun, Busy, Brings, Carries
<1>3. \A e : e \in Carried' <=> \E v \in Workers : Carries(v)' /\ e = job'[v].old
  BY DEF Carried, Carries, Busy, Idle
<1>4. \A e : e \in Carried' <=> e \in Carried
  BY <1>1, <1>2, <1>3, CarriedBy DEF Begun
<1>5. Carried' = Carried
  BY <1>4 DEF Carried
<1> QED
  BY <1>1, <1>2, <1>5 DEF Board, Begun

\* Whatever a handler begins, with an event of the history or under a new ID,
\* keeps the invariant.
LEMMA BeginKeeps ==
  ASSUME TypeOK, BoardInv, NEW w \in Workers,
         NEW op, NEW step, NEW old \in Event, NEW new \in Event,
         Begun(w, op, step, old, new),
         step = "post" => op \notin {"share", "reroll"},
         Shape(w)',
         now' \in Nat, now <= now',
         old \in hist \/ (now < old.id /\ old.id <= now'),
         new.id = old.id \/ (now < new.id /\ new.id <= now'),
         Brings(w)' => now < new.id
  PROVE  BoardInv'
<1>1. /\ ~ Carries(w)'
      /\ \A v \in Workers \ {w} :
            /\ Busy(v)' <=> Busy(v)
            /\ Brings(v)' <=> Brings(v)
            /\ Carries(v)' <=> Carries(v)
      /\ Board' = Board
  BY BegunBoard
<1>2. /\ Busy(w)' /\ job'[w].old = old /\ job'[w].new = new
      /\ \A v \in Workers \ {w} : job'[v] = job[v]
      /\ hist' = hist /\ gone' = gone
  BY DEF Begun
<1>3. /\ now \in Nat /\ old.id \in Nat /\ new.id \in Nat /\ gone \subseteq Nat
      /\ \A e \in Board : e.id \in Nat /\ e.id <= now
      /\ \A i \in gone : i \in Nat /\ i <= now
      /\ \A v \in Workers : Busy(v) =>
            /\ job[v].old.id \in Nat /\ job[v].new.id \in Nat
            /\ job[v].old.id <= now /\ job[v].new.id <= now
  <2>1. old.id \in Nat /\ new.id \in Nat
    BY ConstantsAssumption DEF Event, Time
  <2> QED
    BY <2>1, Numbers DEF BoardInv, Drawn
<1>4. old.id <= now' /\ new.id <= now'
  BY <1>3 DEF Board
<1>5. Drawn'
  <2>1. \A e \in Board' : e.id <= now'
    BY <1>1, <1>3
  <2>2. \A i \in gone' : i <= now'
    BY <1>2, <1>3
  <2>3. ASSUME NEW v \in Workers, Busy(v)'
        PROVE  job'[v].old.id <= now' /\ job'[v].new.id <= now'
    BY <1>1, <1>2, <1>3, <1>4, <2>3
  <2> QED
    BY <2>1, <2>2, <2>3 DEF Drawn
<1>6. OnBoard' /\ Rerolled'
  BY <1>1, <1>2 DEF BoardInv, OnBoard, Rerolled, Off
<1>7. Bringing(w)' /\ Carrying(w)' /\ Copied(w)'
  <2>1. ASSUME Brings(w)'
        PROVE  /\ new.id \notin gone /\ Off(new.id)
               /\ \A v \in Workers \ {w} :
                     Busy(v) => job[v].old.id # new.id /\ job[v].new.id # new.id
    BY <1>3, <2>1 DEF Off
  <2>2. Bringing(w)'
    BY <1>1, <1>2, <2>1 DEF Bringing, Off
  <2>3. \A e \in Board : e.id = old.id => Alike(e, old)
    BY <1>3 DEF BoardInv, OnBoard, Board, Alike
  <2> QED
    BY <1>1, <1>2, <2>2, <2>3 DEF Carrying, Copied
<1>8. ASSUME NEW v \in Workers \ {w}
      PROVE  Shape(v)' /\ Bringing(v)' /\ Carrying(v)' /\ Copied(v)'
  <2>1. /\ Shape(v) /\ Bringing(v) /\ Carrying(v) /\ Copied(v)
        /\ job'[v] = job[v]
    BY <1>2 DEF BoardInv
  <2>2. Shape(v)'
    BY <1>1, <1>2, <2>1 DEF Shape
  <2>3. Carrying(v)' /\ Copied(v)'
    BY <1>1, <1>2, <2>1 DEF Carrying, Copied, NoRecord
  <2>4. ASSUME Brings(v), job[v].op # "share"
        PROVE  old.id # job[v].new.id /\ new.id # job[v].new.id
    <3>1. Busy(v) /\ Off(job[v].new.id)
      BY <2>1, <2>4 DEF Bringing, Brings
    <3> QED
      BY <1>3, <3>1 DEF Off, Board
  <2>5. Bringing(v)'
    <3>1. CASE ~ Brings(v)
      BY <1>1, <3>1 DEF Bringing
    <3>2. CASE Brings(v)
      <4>1. job'[v].new.id \notin gone'
        BY <1>2, <2>1, <3>2 DEF Bringing
      <4>2. ASSUME job[v].op # "share"
            PROVE  /\ Off(job[v].new.id)'
                   /\ \A u \in Workers \ {v} :
                         Busy(u)' => /\ job'[u].old.id # job[v].new.id
                                     /\ job'[u].new.id # job[v].new.id
        <5>1. Off(job[v].new.id)'
          BY <1>1, <2>1, <3>2, <4>2 DEF Bringing, Off
        <5>2. ASSUME NEW u \in Workers \ {v}, Busy(u)'
              PROVE  /\ job'[u].old.id # job[v].new.id
                     /\ job'[u].new.id # job[v].new.id
          <6>1. CASE u = w
            BY <1>2, <2>4, <3>2, <4>2, <6>1
          <6>2. CASE u # w
            <7>1. Busy(u) /\ job'[u] = job[u]
              BY <1>1, <1>2, <5>2, <6>2
            <7> QED
              BY <2>1, <3>2, <4>2, <7>1 DEF Bringing
          <6> QED
            BY <6>1, <6>2
        <5> QED
          BY <5>1, <5>2
      <4> QED
        BY <2>1, <4>1, <4>2 DEF Bringing
    <3> QED
      BY <3>1, <3>2
  <2> QED
    BY <2>2, <2>3, <2>5
<1> QED
  BY <1>5, <1>6, <1>7, <1>8 DEF BoardInv

\* The handlers up to their first transaction.
Beginning(w) ==
    \/ Roll(w) \/ RollInitiative(w) \/ Reroll(w) \/ ModifyEvent(w)
    \/ EditInitiative(w) \/ Delete(w) \/ ShareEvent(w)

LEMMA BeginningKeeps ==
  ASSUME TypeOK, BoardInv, EditsAlone, NEW w \in Workers, Beginning(w)
  PROVE  BoardInv' /\ Board' = Board /\ gone' = gone
<1>0. /\ hist \subseteq Event /\ now \in Nat
      /\ \A t \in NewEventID : t \in Time /\ t \in Nat /\ now < t
      /\ \A e \in hist : e.id \in Nat /\ e.id <= now
  BY ConstantsAssumption, Numbers, SMT
  DEF TypeOK, Event, Time, NewEventID, EditsAlone, BoardInv, Drawn, Board
\* A new event.
<1>1. ASSUME NEW op \in {"roll", "initiative"},
             NEW ty \in {"roll", "edgeRoll", "initiativeRoll"},
             PostNew(w, op, ty)
      PROVE  BoardInv' /\ Board' = Board /\ gone' = gone
  <2>1. PICK p \in Players, s \in Shares, n \in Titles, t \in NewEventID :
          /\ Start(w, op, "post", MakeCore(t, ty, p, s, n),
                   MakeCore(t, ty, p, s, n), FALSE)
          /\ now' = t
    BY <1>1 DEF PostNew
  <2> DEFINE e == MakeCore(t, ty, p, s, n)
  <2>2. e \in Event
    BY <1>0, MakeCoreType DEF Types
  <2>3. e.id = t /\ e.ty = ty /\ e.edit = 0
    BY DEF MakeCore
  <2> HIDE DEF e
  <2>4. Begun(w, op, "post", e, e)
    BY <2>1, <2>2, StartIsBegun DEF e, Endpoints
  <2>5. Shape(w)'
    BY <2>3, <2>4 DEF Begun, Shape, Edits
  <2>6. /\ now' \in Nat /\ now <= now' /\ now < e.id /\ e.id <= now'
    BY <1>0, <2>1, <2>3
  <2> QED
    BY <2>2, <2>4, <2>5, <2>6, BeginKeeps, BegunBoard DEF Begun
<1>2. CASE Roll(w)
  BY <1>1, <1>2 DEF Roll
<1>3. CASE RollInitiative(w)
  BY <1>1, <1>3 DEF RollInitiative
\* A reroll.
<1>4. CASE Reroll(w)
  <2>1. PICK e \in hist, p \in Players, t \in NewEventID :
          /\ e.ty = "roll"
          /\ Start(w, "reroll", "delete", e, ForReroll(t, p, e), FALSE)
          /\ now' = t
    BY <1>4 DEF Reroll, GetByID, At
  <2> DEFINE f == ForReroll(t, p, e)
  <2>2. e \in Event /\ f \in Event
    BY <1>0, ForRerollType
  <2>3. /\ f.id = t /\ f.ty = "rerollFailures" /\ f.prev = e.id
        /\ f.share = e.share /\ f.title = e.title
    BY DEF ForReroll, MakeCore
  <2> HIDE DEF f
  <2>4. Begun(w, "reroll", "delete", e, f)
    BY <2>1, <2>2, StartIsBegun DEF f, Endpoints
  <2>5. Shape(w)'
    BY <2>1, <2>3, <2>4 DEF Begun, Shape, Edits
  <2>6. /\ now' \in Nat /\ now <= now' /\ now < f.id /\ f.id <= now'
    BY <1>0, <2>1, <2>3
  <2> QED
    BY <2>2, <2>4, <2>5, <2>6, BeginKeeps, BegunBoard DEF Begun
\* An edit.
<1>5. ASSUME NEW e \in hist, NEW n \in Titles, NEW t \in NewEventID,
             NEW titled \in BOOLEAN, NEW op \in Edits,
             e.ty # "playerJoin",
             Start(w, op, "update", e, [e EXCEPT !.edit = t, !.title = n],
                   titled),
             now' = t
      PROVE  BoardInv' /\ Board' = Board /\ gone' = gone
  <2> DEFINE f == [e EXCEPT !.edit = t, !.title = n]
  <2>1. e \in Event /\ t \in Time
    BY <1>0
  <2>2. e \in Event /\ f \in Event
    BY <2>1, ModifyType, Zenon
  <2>3. /\ f.id = e.id /\ f.ty = e.ty /\ f.owner = e.owner
        /\ f.share = e.share /\ f.prev = e.prev
    BY <2>2 DEF Event
  <2> HIDE DEF f
  <2>4. Begun(w, op, "update", e, f)
    BY <1>5, <2>2, StartIsBegun DEF f, Edits, Endpoints
  <2>5. Shape(w)'
    BY <1>5, <2>3, <2>4 DEF Begun, Shape, Edits
  <2>6. now' \in Nat /\ now <= now' /\ ~ Brings(w)'
    BY <1>0, <1>5, <2>4 DEF Begun, Brings
  <2> QED
    BY <2>2, <2>3, <2>4, <2>5, <2>6, BeginKeeps, BegunBoard DEF Begun
<1>6. CASE ModifyEvent(w)
  BY <1>5, <1>6, Zenon DEF ModifyEvent, GetByID, At, Edits, MayChange
<1>7. CASE EditInitiative(w)
  <2>1. PICK e \in hist, n \in Titles, t \in NewEventID :
          /\ e.ty = "initiativeRoll"
          /\ Start(w, "editInitiative", "update", e,
                   [e EXCEPT !.edit = t, !.title = n], n # e.title)
          /\ now' = t
    BY <1>7, Zenon DEF EditInitiative, GetByID, At
  <2>2. (n # e.title) \in BOOLEAN /\ "editInitiative" \in Edits
    BY DEF Edits
  <2>3. e.ty # "playerJoin"
    BY <2>1
  <2> QED
    BY <1>5, <2>1, <2>2, <2>3, ZenonT(60)
\* A deletion or a share, which are to move an event as it is but for its share.
<1>8. ASSUME NEW e \in hist, NEW f \in Event, NEW op \in {"delete", "share"},
             e.ty # "playerJoin",
             f.id = e.id, op = "share" => f = [e EXCEPT !.share = f.share],
             Start(w, op, "delete", e, f, FALSE),
             now' = now
      PROVE  BoardInv' /\ Board' = Board /\ gone' = gone
  <2>1. e \in Event /\ op \in Endpoints
    BY <1>0 DEF Endpoints
  <2>2. Begun(w, op, "delete", e, f)
    BY <1>8, <2>1, StartIsBegun
  <2>3. Shape(w)'
    BY <1>8, <2>2 DEF Begun, Shape, Edits
  <2>4. now' \in Nat /\ now <= now' /\ ~ Brings(w)'
    BY <1>0, <1>8, <2>2 DEF Begun, Brings
  <2> QED
    BY <1>8, <2>1, <2>2, <2>3, <2>4, BeginKeeps, BegunBoard DEF Begun
<1>9. CASE Delete(w)
  <2>1. PICK e \in hist : /\ e.ty # "playerJoin"
                          /\ Start(w, "delete", "delete", e, e, FALSE)
                          /\ now' = now
    BY <1>9 DEF Delete, GetByID, At, MayChange
  <2> QED
    BY <1>0, <1>8, <2>1
<1>10. CASE ShareEvent(w)
  <2>1. PICK e \in hist, s \in Shares :
          /\ e.ty # "playerJoin"
          /\ Start(w, "share", "delete", e, [e EXCEPT !.share = s], FALSE)
          /\ now' = now
    BY <1>10 DEF ShareEvent, UpdateEventShare, GetByID, At, MayChange
  <2> DEFINE f == [e EXCEPT !.share = s]
  <2>2. e \in Event /\ f \in Event
    BY <1>0, ShareType
  <2>3. f.id = e.id /\ f.share = s /\ f = [e EXCEPT !.share = f.share]
    BY <2>2 DEF Event
  <2> HIDE DEF f
  <2> QED
    BY <1>8, <2>1, <2>2, <2>3 DEF f
<1> QED
  BY <1>2, <1>3, <1>4, <1>6, <1>7, <1>9, <1>10 DEF Beginning

\* How the carried events change with w's job.
LEMMA CarriedNext ==
  ASSUME NEW w \in Workers, \A v \in Workers \ {w} : job'[v] = job[v]
  PROVE  /\ \A v \in Workers \ {w} :
               /\ Busy(v)' <=> Busy(v)
               /\ Brings(v)' <=> Brings(v)
               /\ Carries(v)' <=> Carries(v)
         /\ \A e : e \in Carried' <=>
               \/ Carries(w)' /\ e = job'[w].old
               \/ \E v \in Workers \ {w} : Carries(v) /\ e = job[v].old
         /\ \A e : e \in Carried <=>
               \/ Carries(w) /\ e = job[w].old
               \/ \E v \in Workers \ {w} : Carries(v) /\ e = job[v].old
<1>1. \A v \in Workers \ {w} :
         /\ Busy(v)' <=> Busy(v)
         /\ Brings(v)' <=> Brings(v)
         /\ Carries(v)' <=> Carries(v)
  BY DEF Busy, Brings, Carries
<1>2. \A e : e \in Carried' <=> \E v \in Workers : Carries(v)' /\ e = job'[v].old
  BY DEF Carried, Carries, Busy, Idle
<1> QED
  BY <1>1, <1>2, CarriedBy

\* A handler that is done carries nothing any more.
LEMMA FinishBoard ==
  ASSUME TypeOK, BoardInv, NEW w \in Workers, job' = [job EXCEPT ![w] = Idle]
  PROVE  /\ ~ Busy(w)'
         /\ \A v \in Workers \ {w} : job'[v] = job[v]
         /\ Carries(w) => Carried' = Carried \ {job[w].old}
         /\ ~ Carries(w) => Carried' = Carried
<1>1. /\ ~ Busy(w)' /\ ~ Carries(w)'
      /\ \A v \in Workers \ {w} : job'[v] = job[v]
  BY DEF TypeOK, Busy, Carries
<1>2. \A v \in Workers \ {w} :
         Carries(w) /\ Carries(v) => job[v].old # job[w].old
  BY DEF BoardInv, Carrying
<1>3. \A e : e \in Carried' <=>
               \E v \in Workers \ {w} : Carries(v) /\ e = job[v].old
  BY <1>1, CarriedNext
<1>4. \A e : e \in Carried <=>
               \/ Carries(w) /\ e = job[w].old
               \/ \E v \in Workers \ {w} : Carries(v) /\ e = job[v].old
  BY <1>1, CarriedNext
<1>5. Carries(w) => \A e : e \in Carried' <=> e \in Carried \ {job[w].old}
  BY <1>2, <1>3, <1>4
<1>6. ~ Carries(w) => \A e : e \in Carried' <=> e \in Carried
  BY <1>3, <1>4
<1>7. Carries(w) => Carried' = Carried \ {job[w].old}
  BY <1>5 DEF Carried
<1>8. ~ Carries(w) => Carried' = Carried
  BY <1>6 DEF Carried
<1> QED
  BY <1>1, <1>7, <1>8

\* What a transaction of w may do to the others' jobs: nothing, as long as it
\* adds w's own new event and copies of events only, removes for good what was
\* in the history or was w's, and takes over from the history what it carries.
LEMMA OthersKeep ==
  ASSUME TypeOK, BoardInv, EditsAlone, NEW w \in Workers, NEW v \in Workers \ {w},
         \A u \in Workers \ {w} : job'[u] = job[u],
         \A e \in Board' :
            \/ \E f \in Board : Alike(e, f)
            \/ Brings(w) /\ job[w].op # "share" /\ e = job[w].new,
         \A i \in gone' :
            \/ i \in gone
            \/ \E f \in hist : i = f.id
            \/ Carries(w) /\ i = job[w].old.id,
         \A e \in hist' : e \in hist \/ (Brings(w) /\ e = job[w].new),
         Brings(w) /\ job[w].op = "share" => job[w].new.id = job[w].old.id,
         Busy(w)' => /\ Busy(w)
                     /\ job'[w].old = job[w].old /\ job'[w].new = job[w].new
                     /\ \E f \in hist : f.id = job[w].old.id
  PROVE  Shape(v)' /\ Bringing(v)' /\ Carrying(v)' /\ Copied(v)'
<1>1. /\ Shape(v) /\ Bringing(v) /\ Carrying(v) /\ Copied(v)
      /\ Bringing(w) /\ Carrying(w)
      /\ job'[v] = job[v]
  BY DEF BoardInv
<1>2. \A u \in Workers \ {w} :
         /\ Busy(u)' <=> Busy(u)
         /\ Brings(u)' <=> Brings(u)
         /\ Carries(u)' <=> Carries(u)
  BY CarriedNext
<1>3. Shape(v)'
  <2>1. Requests \cap Edits = {}
    BY DEF EditsAlone, Alone
  <2>2. Busy(v) => job[v].op \notin Edits
    BY <1>1, <2>1 DEF Shape
  <2> QED
    BY <1>1, <1>2, <2>2 DEF Shape
<1>4. ASSUME Brings(v) PROVE job[v].new.id \notin gone'
  <2>1. CASE job[v].op = "share"
    <3>1. Carries(v) /\ job[v].new.id = job[v].old.id
      <4>1. Busy(v) /\ job[v].old \in Event /\ job[v].step = "post"
        BY <1>4, <2>1, BusyType DEF Brings
      <4>2. job[v].new.id = job[v].old.id
        BY <1>1, <2>1, <4>1 DEF Shape, Event
      <4> QED
        BY <2>1, <4>1, <4>2 DEF Carries
    <3> QED
      BY <1>1, <1>4, <3>1 DEF Bringing, Carrying, NoRecord
  <2>2. CASE job[v].op # "share"
    <3>1. Off(job[v].new.id) /\ job[v].new.id \notin gone
      BY <1>1, <1>4, <2>2 DEF Bringing
    <3>2. \A f \in hist : f.id # job[v].new.id
      BY <3>1 DEF Off, Board
    <3>3. Carries(w) => job[w].old.id # job[v].new.id
      BY <1>1, <1>4, <2>2 DEF Bringing, Carries
    <3> QED
      BY <3>1, <3>2, <3>3
  <2> QED
    BY <2>1, <2>2
<1>5. ASSUME Brings(v), job[v].op # "share"
      PROVE  /\ Off(job[v].new.id)'
             /\ \A u \in Workers \ {v} :
                   Busy(u)' => /\ job'[u].old.id # job[v].new.id
                               /\ job'[u].new.id # job[v].new.id
  <2>1. /\ Off(job[v].new.id)
        /\ \A u \in Workers \ {v} :
              Busy(u) => /\ job[u].old.id # job[v].new.id
                         /\ job[u].new.id # job[v].new.id
    BY <1>1, <1>5 DEF Bringing
  <2>2. ASSUME NEW e \in Board' PROVE e.id # job'[v].new.id
    <3>1. CASE \E f \in Board : Alike(e, f)
      BY <1>1, <2>1, <3>1 DEF Off, Alike
    <3>2. CASE Brings(w) /\ e = job[w].new
      BY <1>1, <2>1, <3>2 DEF Brings
    <3> QED
      BY <3>1, <3>2
  <2>3. Off(job[v].new.id)'
    BY <2>2 DEF Off
  <2>4. ASSUME NEW u \in Workers \ {v}, Busy(u)'
        PROVE  /\ job'[u].old.id # job[v].new.id
               /\ job'[u].new.id # job[v].new.id
    <3>1. CASE u = w
      BY <2>1, <2>4, <3>1
    <3>2. CASE u # w
      <4>1. Busy(u) /\ job'[u] = job[u]
        BY <1>2, <2>4, <3>2
      <4> QED
        BY <2>1, <4>1
    <3> QED
      BY <3>1, <3>2
  <2> QED
    BY <2>3, <2>4
<1>6. Bringing(v)'
  BY <1>1, <1>2, <1>4, <1>5 DEF Bringing
<1>7. ASSUME Carries(v)
      PROVE  /\ \A e \in hist' : e.id # job[v].old.id
             /\ \A u \in Workers \ {v} :
                   Carries(u)' => job'[u].old.id # job[v].old.id
  <2>1. /\ NoRecord(job[v].old.id) /\ Busy(v)
        /\ \A u \in Workers \ {v} :
              Carries(u) => job[u].old.id # job[v].old.id
    BY <1>1, <1>7 DEF Carrying, Carries
  <2>2. Brings(w) => job[w].new.id # job[v].old.id
    <3>1. CASE Brings(w) /\ job[w].op = "share"
      <4>1. Carries(w) /\ job[w].new.id = job[w].old.id
        BY <3>1 DEF Brings, Carries
      <4> QED
        BY <2>1, <4>1
    <3>2. CASE Brings(w) /\ job[w].op # "share"
      BY <1>1, <2>1, <3>2 DEF Bringing
    <3> QED
      BY <3>1, <3>2
  <2>3. \A e \in hist' : e.id # job[v].old.id
    BY <2>1, <2>2 DEF NoRecord
  <2>4. ASSUME NEW u \in Workers \ {v}, Carries(u)'
        PROVE  job'[u].old.id # job[v].old.id
    <3>1. CASE u = w
      <4>1. Busy(w)'
        BY <2>4, <3>1 DEF Carries
      <4> QED
        BY <2>1, <3>1, <4>1 DEF NoRecord
    <3>2. CASE u # w
      BY <1>2, <2>1, <2>4, <3>2
    <3> QED
      BY <3>1, <3>2
  <2> QED
    BY <2>3, <2>4
<1>8. Carrying(v)'
  BY <1>1, <1>2, <1>7 DEF Carrying, NoRecord
<1>9. ASSUME Busy(v), NEW e \in Board', e.id = job[v].old.id
      PROVE  Alike(e, job[v].old)
  <2>1. CASE \E f \in Board : Alike(e, f)
    BY <1>1, <1>9, <2>1 DEF Copied, Alike
  <2>2. CASE Brings(w) /\ job[w].op # "share" /\ e = job[w].new
    BY <1>1, <1>9, <2>2 DEF Bringing
  <2> QED
    BY <2>1, <2>2
<1>10. Copied(v)'
  BY <1>1, <1>2, <1>9 DEF Copied, Alike
<1> QED
  BY <1>3, <1>6, <1>8, <1>10

\* What PostEvent does to the board: a roll is added, a shared event is put
\* back, a reroll takes the place of its roll.
LEMMA PostBoard ==
  ASSUME TypeOK, BoardInv, NEW w \in Workers, PostEvent(w)
  PROVE  LET old == job[w].old
             new == job[w].new
         IN
         /\ Brings(w) /\ old \in Event /\ new \in Event
         /\ job[w].op \in {"roll", "initiative", "share", "reroll"}
         /\ ~ Busy(w)' /\ now' = now
         /\ \A v \in Workers \ {w} : job'[v] = job[v]
         /\ hist' = hist \cup {new}
         /\ job[w].op \in {"roll", "initiative"} =>
               Board' = Board \cup {new} /\ gone' = gone
         /\ job[w].op = "share" =>
               /\ Carries(w) /\ old \in Board
               /\ Board' = (Board \ {old}) \cup {new} /\ gone' = gone
         /\ job[w].op = "reroll" =>
               /\ Carries(w) /\ old \in Board
               /\ Board' = (Board \ {old}) \cup {new}
               /\ gone' = gone \cup {old.id}
<1> DEFINE old == job[w].old
           new == job[w].new
<1>1. /\ Brings(w) /\ Busy(w) /\ old \in Event /\ new \in Event
      /\ job[w].op \in Endpoints /\ job[w].step = "post"
  BY BusyType DEF PostEvent, Busy, Brings
<1>2. job[w].op \in {"roll", "initiative", "share", "reroll"}
  BY <1>1 DEF BoardInv, Shape, Endpoints, Edits
<1>3. /\ job' = [job EXCEPT ![w] = Idle] /\ now' = now
      /\ hist' = hist \cup {new}
      /\ gone' = IF job[w].op = "reroll" /\ new \notin hist
                 THEN gone \cup {old.id} ELSE gone
  BY DEF PostEvent
<1>4. /\ ~ Busy(w)'
      /\ \A v \in Workers \ {w} : job'[v] = job[v]
      /\ Carries(w) => Carried' = Carried \ {old}
      /\ ~ Carries(w) => Carried' = Carried
  BY <1>3, FinishBoard
<1>5. CASE job[w].op \in {"roll", "initiative"}
  <2>1. Carried' = Carried /\ gone' = gone
    BY <1>3, <1>4, <1>5 DEF Carries
  <2>2. Board' = Board \cup {new}
    BY <1>3, <2>1 DEF Board
  <2> QED
    BY <1>1, <1>3, <1>4, <1>5, <2>1, <2>2
<1>6. CASE job[w].op \in {"share", "reroll"}
  <2>1. Carries(w)
    BY <1>1, <1>6 DEF Carries
  <2>2. old \in Carried /\ old \notin hist
    BY <2>1, CarriedBy DEF BoardInv, Carrying, NoRecord
  <2>3. Board' = (Board \ {old}) \cup {new}
    BY <1>3, <1>4, <2>1, <2>2 DEF Board
  <2>4. job[w].op = "reroll" => new \notin hist
    BY <1>1 DEF BoardInv, Bringing, Off, Board
  <2>5. job[w].op = "reroll" => gone' = gone \cup {old.id}
    BY <1>3, <2>4
  <2>6. job[w].op = "share" => gone' = gone
    BY <1>3
  <2>7. old \in Board
    BY <2>2 DEF Board
  <2> QED
    BY <1>1, <1>3, <1>4, <1>6, <2>1, <2>3, <2>5, <2>6, <2>7
<1> QED
  BY <1>2, <1>5, <1>6

\* What DeleteEvent does to the board: nothing, or it deletes the event for
\* good, or it exchanges it for the copy that is now carried.
LEMMA DeleteBoard ==
  ASSUME TypeOK, BoardInv, NEW w \in Workers, DeleteEvent(w)
  PROVE  LET old == job[w].old IN
         /\ Busy(w) /\ old \in Event /\ job[w].new \in Event
         /\ job[w].step = "delete"
         /\ now' = now /\ hist' \subseteq hist
         /\ \A v \in Workers \ {w} : job'[v] = job[v]
         /\ \/ ~ Busy(w)' /\ Board' = Board /\ gone' = gone
            \/ /\ ~ Busy(w)' /\ job[w].op = "delete"
               /\ \E f \in hist : /\ f.id = old.id
                                  /\ Board' = Board \ {f}
                                  /\ gone' = gone \cup {old.id}
            \/ /\ job[w].op \in {"share", "reroll"} /\ Busy(w)'
               /\ job'[w].op = job[w].op /\ job'[w].step = "post"
               /\ job'[w].old = old /\ job'[w].new = job[w].new
               /\ \A e \in hist' : e.id # old.id
               /\ \E f \in hist : /\ f.id = old.id
                                  /\ Board' = (Board \ {f}) \cup {old}
                                  /\ gone' = gone
<1> DEFINE old == job[w].old
<1>1. /\ Busy(w) /\ ~ Carries(w) /\ old \in Event /\ job[w].new \in Event
      /\ job[w].step = "delete" /\ job[w].op \in Endpoints /\ job[w] \in Job
  BY BusyType DEF DeleteEvent, Busy, Carries, TypeOK
<1>2. /\ hist' = hist \ At(old.id) /\ now' = now
      /\ job' = [job EXCEPT ![w] =
                   IF job[w].op \in {"share", "reroll"} /\ DeletedOne(old)
                   THEN [job[w] EXCEPT !.step = "post"] ELSE Idle]
      /\ gone' = IF job[w].op = "delete" /\ DeletedOne(old)
                 THEN gone \cup {old.id} ELSE gone
  BY DEF DeleteEvent
<1>3. \A e, f \in hist : e.id = f.id => e = f
  BY DEF BoardInv, OnBoard, Board
<1>4. \A e \in Carried : \A f \in hist : e.id # f.id
  BY CarriedBy DEF BoardInv, Carrying, NoRecord
<1>5. /\ hist' \subseteq hist
      /\ \A v \in Workers \ {w} : job'[v] = job[v]
  BY <1>2 DEF TypeOK
<1>6. job[w].op \in {"delete", "share", "reroll"}
  BY <1>1 DEF BoardInv, Shape, Endpoints, Edits
<1>7. CASE ~ DeletedOne(old)
  <2>1. \A f \in hist : f.id # old.id
    <3> SUFFICES ASSUME NEW f \in hist, f.id = old.id PROVE FALSE
      OBVIOUS
    <3>1. At(old.id) = {f}
      BY <1>3 DEF At
    <3> QED
      BY <1>7, <3>1 DEF DeletedOne
  <2>2. hist' = hist /\ gone' = gone /\ job' = [job EXCEPT ![w] = Idle]
    BY <1>2, <1>7, <2>1 DEF At
  <2>3. ~ Busy(w)' /\ Carried' = Carried
    BY <1>1, <2>2, FinishBoard
  <2>4. Board' = Board
    BY <2>2, <2>3 DEF Board
  <2> QED
    BY <1>1, <1>2, <1>5, <2>2, <2>3, <2>4
<1>8. CASE DeletedOne(old)
  <2>1. PICK f \in hist : At(old.id) = {f} /\ f.id = old.id
    BY <1>8 DEF DeletedOne, At
  <2>2. hist' = hist \ {f} /\ \A e \in hist' : e.id # old.id
    BY <1>2, <2>1 DEF At
  <2>3. f \notin Carried
    BY <1>4
  <2>4. CASE job[w].op = "delete"
    <3>1. job' = [job EXCEPT ![w] = Idle] /\ gone' = gone \cup {old.id}
      BY <1>2, <1>8, <2>4
    <3>2. ~ Busy(w)' /\ Carried' = Carried
      BY <1>1, <3>1, FinishBoard
    <3>3. Board' = Board \ {f}
      BY <2>2, <2>3, <3>2 DEF Board
    <3> QED
      BY <1>1, <1>2, <1>5, <2>1, <2>4, <3>1, <3>2, <3>3
  <2>5. CASE job[w].op \in {"share", "reroll"}
    <3>1. job'[w] = [job[w] EXCEPT !.step = "post"] /\ gone' = gone
      BY <1>2, <1>8, <2>5 DEF TypeOK
    <3>2. /\ job'[w].op = job[w].op /\ job'[w].step = "post"
          /\ job'[w].old = old /\ job'[w].new = job[w].new
      BY <1>1, <3>1 DEF Job, Busy
    <3>3. Busy(w)' /\ Carries(w)'
      BY <2>5, <3>2 DEF Busy, Carries, Idle
    <3>4. \A e : e \in Carried' <=>
                   \/ e = old
                   \/ \E v \in Workers \ {w} : Carries(v) /\ e = job[v].old
      BY <1>5, <3>2, <3>3, CarriedNext
    <3>5. \A e : e \in Carried <=>
                   \E v \in Workers \ {w} : Carries(v) /\ e = job[v].old
      BY <1>1, <1>5, CarriedNext
    <3>6. \A e : e \in Carried' <=> e \in Carried \cup {old}
      BY <3>4, <3>5
    <3>7. Carried' = Carried \cup {old}
      BY <3>6 DEF Carried
    <3>8. Board' = (Board \ {f}) \cup {old}
      BY <2>2, <2>3, <3>7 DEF Board
    <3> QED
      BY <1>1, <1>2, <1>5, <2>1, <2>2, <2>5, <3>1, <3>2, <3>3, <3>8
  <2> QED
    BY <1>6, <2>4, <2>5
<1> QED
  BY <1>7, <1>8

\* What UpdateEvent does to the board, while nobody else moves its event: it
\* exchanges the event for its edited copy.
LEMMA UpdateBoard ==
  ASSUME TypeOK, BoardInv, EditsAlone, NEW w \in Workers, UpdateEvent(w)
  PROVE  LET old == job[w].old
             new == job[w].new
         IN
         /\ Alone /\ Busy(w) /\ job[w].op \in Edits /\ ~ Busy(w)'
         /\ now' = now /\ gone' = gone
         /\ old \in Board
         /\ hist' = (hist \ {old}) \cup {new}
         /\ Board' = (Board \ {old}) \cup {new}
         /\ Carried = {}
<1> DEFINE old == job[w].old
           new == job[w].new
<1>1. /\ Busy(w) /\ ~ Carries(w) /\ job[w].op \in Endpoints
      /\ job[w].step = "update"
  BY BusyType DEF UpdateEvent, Busy, Carries
<1>2. /\ job[w].op \in Edits /\ job[w].op \in Requests
      /\ old \in hist /\ new.id = old.id
  BY <1>1 DEF BoardInv, Shape, Endpoints, Edits
<1>3. Alone
  BY <1>2 DEF EditsAlone
<1>4. /\ hist' = (hist \ At(new.id)) \cup {new} /\ now' = now /\ gone' = gone
      /\ job' = [job EXCEPT ![w] = Idle]
  BY DEF UpdateEvent, Replaced
<1>5. At(new.id) = {old}
  BY <1>2 DEF At, BoardInv, OnBoard, Board
<1>6. Carried = {}
  <2>1. ASSUME NEW v \in Workers PROVE ~ Carries(v)
    <3>1. v = w
      BY <1>3 DEF Alone
    <3> QED
      BY <1>1, <3>1
  <2> QED
    BY <2>1, CarriedBy
<1>7. ~ Busy(w)' /\ Carried' = Carried
  BY <1>1, <1>4, FinishBoard
<1>8. Board' = (Board \ {old}) \cup {new} /\ old \in Board
  BY <1>2, <1>4, <1>5, <1>6, <1>7 DEF Board
<1> QED
  BY <1>1, <1>2, <1>3, <1>4, <1>5, <1>6, <1>7, <1>8

\* What a handler that stops does to the board: it loses what it carries.
LEMMA StopBoard ==
  ASSUME TypeOK, BoardInv, NEW w \in Workers, Stop(w)
  PROVE  /\ ~ Busy(w)' /\ now' = now /\ gone' = gone /\ hist' = hist
         /\ \A v \in Workers \ {w} : job'[v] = job[v]
         /\ \/ Board' = Board
            \/ /\ Faults /\ Carries(w) /\ job[w].old \in Board
               /\ Board' = Board \ {job[w].old}
<1>1. /\ Faults /\ job' = [job EXCEPT ![w] = Idle]
      /\ now' = now /\ gone' = gone /\ hist' = hist
  BY DEF Stop
<1>2. /\ ~ Busy(w)'
      /\ \A v \in Workers \ {w} : job'[v] = job[v]
      /\ Carries(w) => Carried' = Carried \ {job[w].old}
      /\ ~ Carries(w) => Carried' = Carried
  BY <1>1, FinishBoard
<1>3. CASE ~ Carries(w)
  BY <1>1, <1>2, <1>3 DEF Board
<1>4. CASE Carries(w)
  <2>1. job[w].old \in Carried /\ job[w].old \notin hist
    BY <1>4, CarriedBy DEF BoardInv, Carrying, NoRecord
  <2>2. Board' = Board \ {job[w].old} /\ job[w].old \in Board
    BY <1>1, <1>2, <1>4, <2>1 DEF Board
  <2> QED
    BY <1>1, <1>2, <1>4, <2>2
<1> QED
  BY <1>3, <1>4

\* Exchanging an event of the board for a copy of it keeps what is said of the
\* board.
LEMMA BoardSwap ==
  ASSUME OnBoard, Rerolled, NEW old \in Board, NEW new,
         new.id = old.id, new.ty = old.ty, new.prev = old.prev,
         Board' = (Board \ {old}) \cup {new}, gone' = gone
  PROVE  OnBoard' /\ Rerolled'
<1>1. \A e \in Board' : \E f \in Board : /\ f.id = e.id /\ f.ty = e.ty
                                         /\ f.prev = e.prev
  OBVIOUS
<1>2. \A e \in Board' : e = new \/ (e \in Board /\ e.id # new.id)
  BY DEF OnBoard
<1>3. \A e, f \in Board' : e.id = f.id => e = f
  BY <1>2 DEF OnBoard
<1>4. \A i \in gone' : \A e \in Board' : e.id # i
  BY <1>1 DEF OnBoard, Off
<1>5. ASSUME NEW e \in Board', NEW f \in Board', e.ty = "rerollFailures"
      PROVE  /\ e.prev \in gone'
             /\ f.ty = "rerollFailures" /\ f.prev = e.prev => f.id = e.id
  <2>1. PICK g \in Board : g.id = e.id /\ g.ty = e.ty /\ g.prev = e.prev
    BY <1>1
  <2>2. PICK h \in Board : h.id = f.id /\ h.ty = f.ty /\ h.prev = f.prev
    BY <1>1
  <2> QED
    BY <1>5, <2>1, <2>2 DEF Rerolled
<1> QED
  BY <1>3, <1>4, <1>5 DEF OnBoard, Off, Rerolled

\* So does taking an event from it, for good or not.
LEMMA BoardDrop ==
  ASSUME OnBoard, Rerolled, NEW old \in Board,
         Board' = Board \ {old}, gone' = gone \/ gone' = gone \cup {old.id}
  PROVE  OnBoard' /\ Rerolled'
<1>1. \A e \in Board' : e \in Board /\ e.id # old.id
  BY DEF OnBoard
<1>2. \A i \in gone' : \A e \in Board' : e.id # i
  BY <1>1 DEF OnBoard, Off
<1> QED
  BY <1>1, <1>2 DEF OnBoard, Off, Rerolled

\* And adding an event that is no reroll under a new ID.
LEMMA BoardAdd ==
  ASSUME OnBoard, Rerolled, NEW new, Off(new.id), new.id \notin gone,
         new.ty # "rerollFailures",
         Board' = Board \cup {new}, gone' = gone
  PROVE  OnBoard' /\ Rerolled'
<1>1. OnBoard'
  BY DEF OnBoard, Off
<1>2. Rerolled'
  BY DEF Rerolled
<1> QED
  BY <1>1, <1>2

\* And putting a reroll in the place of its roll.
LEMMA BoardReroll ==
  ASSUME OnBoard, Rerolled, NEW old \in Board, NEW new,
         Off(new.id), new.id \notin gone,
         new.ty = "rerollFailures", new.prev = old.id,
         Board' = (Board \ {old}) \cup {new}, gone' = gone \cup {old.id}
  PROVE  OnBoard' /\ Rerolled'
<1>1. \A e \in Board' : e = new \/ (e \in Board /\ e.id # old.id /\ e.id # new.id)
  BY DEF OnBoard, Off
<1>2. new.id # old.id /\ old.id \notin gone
  BY DEF Off, OnBoard
<1>3. \A i \in gone' : \A e \in Board' : e.id # i
  BY <1>1, <1>2 DEF OnBoard, Off
<1>4. \A e, f \in Board' : e.id = f.id => e = f
  BY <1>1 DEF OnBoard
<1>5. ASSUME NEW e \in Board', e.ty = "rerollFailures"
      PROVE  /\ e.prev \in gone'
             /\ e \in Board => e.prev \in gone /\ e.prev # old.id
  BY <1>1, <1>2, <1>5 DEF Rerolled
<1>6. ASSUME NEW e \in Board', NEW f \in Board', e.ty = "rerollFailures",
             f.ty = "rerollFailures", f.prev = e.prev
      PROVE  f.id = e.id
  BY <1>1, <1>5, <1>6 DEF Rerolled
<1> QED
  BY <1>3, <1>4, <1>5, <1>6 DEF OnBoard, Off, Rerolled

\* The clock stays ahead of the IDs when no new ones are drawn.
LEMMA DrawnKeeps ==
  ASSUME Drawn, NEW w \in Workers, now' = now,
         \A v \in Workers \ {w} : job'[v] = job[v],
         \A e \in Board' : \/ \E f \in Board : e.id = f.id
                           \/ Busy(w) /\ (e = job[w].new \/ e = job[w].old),
         \A i \in gone' : \/ i \in gone
                          \/ Busy(w) /\ i = job[w].old.id,
         Busy(w)' => /\ Busy(w) /\ job'[w].old = job[w].old
                     /\ job'[w].new = job[w].new
  PROVE  Drawn'
<1>1. \A e \in Board' : e.id <= now'
  BY DEF Drawn
<1>2. \A i \in gone' : i <= now'
  BY DEF Drawn
<1>3. ASSUME NEW v \in Workers, Busy(v)'
      PROVE  job'[v].old.id <= now' /\ job'[v].new.id <= now'
  BY <1>3, CarriedNext DEF Drawn
<1> QED
  BY <1>1, <1>2, <1>3 DEF Drawn

\* A handler that is done asks nothing of its own job.
LEMMA IdleKeeps ==
  ASSUME NEW w, ~ Busy(w)'
  PROVE  Shape(w)' /\ Bringing(w)' /\ Carrying(w)' /\ Copied(w)'
<1>1. ~ Brings(w)' /\ ~ Carries(w)'
  BY DEF Brings, Carries
<1> QED
  BY <1>1 DEF Shape, Bringing, Carrying, Copied

\* Every transaction, and every failure, keeps the invariant.
Transaction(w) ==
    PostEvent(w) \/ DeleteEvent(w) \/ UpdateEvent(w) \/ Stop(w)

LEMMA TransactionKeeps ==
  ASSUME TypeOK, BoardInv, EditsAlone, NEW w \in Workers, Transaction(w)
  PROVE  BoardInv'
<1> DEFINE old == job[w].old
           new == job[w].new
<1>1. /\ Drawn /\ OnBoard /\ Rerolled
      /\ Shape(w) /\ Bringing(w) /\ Carrying(w) /\ Copied(w)
  BY DEF BoardInv
<1>2. /\ \A e \in hist : e \in Board
      /\ Carries(w) => old \in Board
  BY CarriedBy DEF Board
<1>3. \A e : Alike(e, e)
  BY DEF Alike
<1>4. CASE PostEvent(w)
  <2>1. /\ Brings(w) /\ Busy(w) /\ old \in Event /\ new \in Event
        /\ job[w].op \in {"roll", "initiative", "share", "reroll"}
        /\ ~ Busy(w)' /\ now' = now
        /\ \A v \in Workers \ {w} : job'[v] = job[v]
        /\ hist' = hist \cup {new}
    BY <1>4, PostBoard DEF Brings
  <2>2. /\ OnBoard' /\ Rerolled'
        /\ \A e \in Board' :
              \/ \E f \in Board : Alike(e, f)
              \/ job[w].op # "share" /\ e = new
        /\ \A i \in gone' : i \in gone \/ (Carries(w) /\ i = old.id)
        /\ job[w].op = "share" => new.id = old.id
    <3>1. CASE job[w].op \in {"roll", "initiative"}
      <4>1. Board' = Board \cup {new} /\ gone' = gone
        BY <1>4, <3>1, PostBoard
      <4>2. /\ Off(new.id) /\ new.id \notin gone
            /\ new.ty # "rerollFailures" /\ job[w].op # "share"
        BY <1>1, <2>1, <3>1 DEF Bringing, Shape
      <4>3. OnBoard' /\ Rerolled'
        BY <1>1, <4>1, <4>2, BoardAdd
      <4> QED
        BY <1>3, <4>1, <4>2, <4>3
    <3>2. CASE job[w].op = "share"
      <4>1. /\ old \in Board
            /\ Board' = (Board \ {old}) \cup {new} /\ gone' = gone
        BY <1>4, <3>2, PostBoard
      <4>2. new = [old EXCEPT !.share = new.share]
        BY <1>1, <2>1, <3>2 DEF Shape
      <4>3. Alike(new, old)
        BY <2>1, <4>2 DEF Alike, Event
      <4>4. OnBoard' /\ Rerolled'
        BY <1>1, <4>1, <4>3, BoardSwap DEF Alike
      <4> QED
        BY <1>3, <3>2, <4>1, <4>3, <4>4 DEF Alike
    <3>3. CASE job[w].op = "reroll"
      <4>1. /\ Carries(w) /\ old \in Board
            /\ Board' = (Board \ {old}) \cup {new}
            /\ gone' = gone \cup {old.id}
        BY <1>4, <3>3, PostBoard
      <4>2. /\ Off(new.id) /\ new.id \notin gone
            /\ new.ty = "rerollFailures" /\ new.prev = old.id
        BY <1>1, <2>1, <3>3 DEF Bringing, Shape
      <4>3. OnBoard' /\ Rerolled'
        BY <1>1, <4>1, <4>2, BoardReroll
      <4> QED
        BY <1>3, <3>3, <4>1, <4>3
    <3> QED
      BY <2>1, <3>1, <3>2, <3>3
  <2>3. Drawn'
    <3>1. \A e \in Board' : (\E f \in Board : e.id = f.id) \/ e = new
      BY <2>2 DEF Alike
    <3> QED
      BY <1>1, <2>1, <2>2, <3>1, DrawnKeeps
  <2>4. \A v \in Workers \ {w} :
           Shape(v)' /\ Bringing(v)' /\ Carrying(v)' /\ Copied(v)'
    BY <2>1, <2>2, OthersKeep
  <2> QED
    BY <2>1, <2>2, <2>3, <2>4, IdleKeeps DEF BoardInv
<1>5. CASE DeleteEvent(w)
  <2>1. /\ Busy(w) /\ ~ Carries(w) /\ job[w].step = "delete"
        /\ old \in Event /\ new \in Event
        /\ now' = now /\ hist' \subseteq hist
        /\ \A v \in Workers \ {w} : job'[v] = job[v]
        /\ Brings(w) /\ job[w].op = "share" => new.id = old.id
    BY <1>5, DeleteBoard DEF Carries, Brings
  <2>2. CASE /\ ~ Busy(w)'
             /\ \/ Board' = Board /\ gone' = gone
                \/ \E f \in hist : /\ f.id = old.id
                                   /\ Board' = Board \ {f}
                                   /\ gone' = gone \cup {old.id}
    <3>1. /\ OnBoard' /\ Rerolled' /\ Board' \subseteq Board
          /\ \A i \in gone' :
                i \in gone \/ (i = old.id /\ \E f \in hist : i = f.id)
      <4>1. CASE Board' = Board /\ gone' = gone
        BY <1>1, <4>1 DEF OnBoard, Rerolled, Off
      <4>2. CASE \E f \in hist : /\ f.id = old.id
                                 /\ Board' = Board \ {f}
                                 /\ gone' = gone \cup {old.id}
        <5>1. PICK f \in hist : /\ f.id = old.id
                                /\ Board' = Board \ {f}
                                /\ gone' = gone \cup {old.id}
          BY <4>2
        <5> QED
          BY <1>1, <1>2, <5>1, BoardDrop
      <4> QED
        BY <2>2, <4>1, <4>2
    <3>2. Drawn'
      BY <1>1, <2>1, <2>2, <3>1, DrawnKeeps
    <3>3. \A v \in Workers \ {w} :
             Shape(v)' /\ Bringing(v)' /\ Carrying(v)' /\ Copied(v)'
      BY <1>3, <2>1, <2>2, <3>1, OthersKeep
    <3> QED
      BY <2>2, <3>1, <3>2, <3>3, IdleKeeps DEF BoardInv
  <2>3. CASE /\ job[w].op \in {"share", "reroll"} /\ Busy(w)'
             /\ job'[w].op = job[w].op /\ job'[w].step = "post"
             /\ job'[w].old = old /\ job'[w].new = new
             /\ \A e \in hist' : e.id # old.id
             /\ \E f \in hist : /\ f.id = old.id
                                /\ Board' = (Board \ {f}) \cup {old}
                                /\ gone' = gone
    <3>1. PICK f \in hist : /\ f.id = old.id
                            /\ Board' = (Board \ {f}) \cup {old}
                            /\ gone' = gone
      BY <2>3
    <3>2. f \in Board /\ Alike(f, old) /\ Alike(old, f)
      BY <1>1, <1>2, <2>1, <3>1 DEF Copied, Alike
    <3>3. OnBoard' /\ Rerolled'
      BY <1>1, <3>1, <3>2, BoardSwap DEF Alike
    <3>4. Drawn'
      BY <1>1, <2>1, <2>3, <3>1, DrawnKeeps
    <3>5. \A v \in Workers \ {w} :
             Shape(v)' /\ Bringing(v)' /\ Carrying(v)' /\ Copied(v)'
      BY <1>3, <2>1, <2>3, <3>1, <3>2, OthersKeep
    <3>6. Shape(w)'
      BY <1>1, <2>1, <2>3 DEF Shape, Edits
    <3>7. Bringing(w)'
      <4>1. CASE job[w].op = "share"
        <5>1. new = [old EXCEPT !.share = new.share]
          BY <1>1, <2>1, <4>1 DEF Shape
        <5>2. new.id = old.id
          BY <2>1, <5>1 DEF Event
        <5>3. old.id \notin gone
          BY <1>1, <3>1, <3>2 DEF OnBoard, Off
        <5> QED
          BY <2>3, <3>1, <4>1, <5>2, <5>3 DEF Bringing
      <4>2. CASE job[w].op = "reroll"
        <5>1. /\ new.id \notin gone /\ Off(new.id)
              /\ \A v \in Workers \ {w} :
                    Busy(v) => /\ job[v].old.id # new.id
                               /\ job[v].new.id # new.id
          BY <1>1, <2>1, <4>2 DEF Bringing, Brings
        <5>2. Off(new.id)'
          BY <2>3, <3>1, <3>2, <5>1 DEF Off
        <5>3. \A v \in Workers \ {w} :
                 Busy(v)' => /\ job'[v].old.id # new.id
                             /\ job'[v].new.id # new.id
          BY <2>1, <5>1, CarriedNext
        <5> QED
          BY <2>3, <3>1, <5>1, <5>2, <5>3 DEF Bringing
      <4> QED
        BY <2>3, <4>1, <4>2
    <3>8. Carrying(w)'
      <4>1. ASSUME NEW v \in Workers \ {w}, Carries(v)'
            PROVE  job'[v].old.id # old.id
        <5>1. Carries(v) /\ job'[v] = job[v]
          BY <2>1, <4>1, CarriedNext
        <5> QED
          BY <3>1, <5>1 DEF BoardInv, Carrying, NoRecord
      <4> QED
        BY <2>3, <4>1 DEF Carrying, NoRecord
    <3>9. Copied(w)'
      BY <1>3, <2>3, <3>1, <3>2 DEF Copied, BoardInv, OnBoard
    <3> QED
      BY <3>3, <3>4, <3>5, <3>6, <3>7, <3>8, <3>9 DEF BoardInv
  <2> QED
    BY <1>5, <2>2, <2>3, DeleteBoard
<1>6. CASE UpdateEvent(w)
  <2>1. /\ Alone /\ Busy(w) /\ job[w].op \in Edits /\ ~ Busy(w)'
        /\ now' = now /\ gone' = gone
        /\ old \in Board
        /\ Board' = (Board \ {old}) \cup {new}
    BY <1>6, UpdateBoard
  <2>2. new.id = old.id /\ new.ty = old.ty /\ new.prev = old.prev
    BY <1>1, <2>1 DEF Shape
  <2>3. OnBoard' /\ Rerolled'
    BY <1>1, <2>1, <2>2, BoardSwap
  <2>4. \A v \in Workers : v = w
    BY <2>1 DEF Alone
  <2>5. Drawn'
    BY <1>1, <2>1, <2>2, <2>4, DrawnKeeps
  <2>6. Shape(w)' /\ Bringing(w)' /\ Carrying(w)' /\ Copied(w)'
    BY <2>1, IdleKeeps
  <2> QED
    BY <2>3, <2>4, <2>5, <2>6 DEF BoardInv
<1>7. CASE Stop(w)
  <2>1. /\ ~ Busy(w)' /\ now' = now /\ gone' = gone /\ hist' = hist
        /\ \A v \in Workers \ {w} : job'[v] = job[v]
        /\ \/ Board' = Board
           \/ Carries(w) /\ old \in Board /\ Board' = Board \ {old}
    BY <1>7, StopBoard
  <2>2. /\ OnBoard' /\ Rerolled' /\ Board' \subseteq Board
    <3>1. CASE Board' = Board
      BY <1>1, <2>1, <3>1 DEF OnBoard, Rerolled, Off
    <3>2. CASE old \in Board /\ Board' = Board \ {old}
      BY <1>1, <2>1, <3>2, BoardDrop
    <3> QED
      BY <2>1, <3>1, <3>2
  <2>3. Drawn'
    BY <1>1, <2>1, <2>2, DrawnKeeps
  <2>4. Brings(w) /\ job[w].op = "share" => new.id = old.id
    <3>1. ASSUME Brings(w), job[w].op = "share"
          PROVE  new.id = old.id
      <4>1. Busy(w) /\ job[w].step = "post" /\ old \in Event
        BY <3>1, BusyType DEF Brings
      <4>2. new = [old EXCEPT !.share = new.share]
        BY <1>1, <3>1, <4>1 DEF Shape
      <4> QED
        BY <4>1, <4>2 DEF Event
    <3> QED
      BY <3>1
  <2>5. \A v \in Workers \ {w} :
           Shape(v)' /\ Bringing(v)' /\ Carrying(v)' /\ Copied(v)'
    BY <1>3, <2>1, <2>2, <2>4, OthersKeep
  <2> QED
    BY <2>1, <2>2, <2>3, <2>5, IdleKeeps DEF BoardInv
<1> QED
  BY <1>4, <1>5, <1>6, <1>7 DEF Transaction

LEMMA InitBoard == Init => BoardInv /\ Board = hist
<1> SUFFICES ASSUME Init PROVE BoardInv /\ Board = hist
  OBVIOUS
<1>1. PICK p \in Players, n \in Titles :
        hist = {MakeCore(0, "playerJoin", p, "inGame", n)}
  BY DEF Init
<1>2. \A e \in hist : e.id = 0 /\ e.ty = "playerJoin"
  BY <1>1 DEF MakeCore
<1>3. now = 0 /\ gone = {} /\ \A w \in Workers : ~ Busy(w)
  BY DEF Init, Busy
<1>4. Carried = {}
  BY <1>3, CarriedBy DEF Carries
<1>5. Board = hist
  BY <1>4 DEF Board
<1>6. Drawn
  BY <1>2, <1>3, <1>5 DEF Drawn
<1>7. OnBoard /\ Rerolled
  BY <1>1, <1>2, <1>3, <1>5 DEF OnBoard, Rerolled, Off
<1>8. ASSUME NEW w \in Workers
      PROVE  Shape(w) /\ Bringing(w) /\ Carrying(w) /\ Copied(w)
  <2>1. ~ Busy(w) /\ ~ Brings(w) /\ ~ Carries(w)
    BY <1>3 DEF Brings, Carries
  <2> QED
    BY <2>1 DEF Shape, Bringing, Carrying, Copied
<1> QED
  BY <1>5, <1>6, <1>7, <1>8 DEF BoardInv

LEMMA BoardKeeps ==
  ASSUME EditsAlone, TypeOK, BoardInv, [Next]_vars
  PROVE  BoardInv'
<1>1. CASE Next
  <2>1. PICK w \in Workers : Beginning(w) \/ Transaction(w)
    BY <1>1 DEF Next, Beginning, Transaction
  <2> QED
    BY <2>1, BeginningKeeps, TransactionKeeps
<1>2. CASE UNCHANGED vars
  BY <1>2
  DEF vars, BoardInv, Drawn, OnBoard, Rerolled, Shape, Bringing, Carrying,
      Copied, Board, Carried, Brings, Carries, Busy, Off, NoRecord
<1> QED
  BY <1>1, <1>2

LEMMA BoardAlways ==
  ASSUME EditsAlone
  PROVE  Spec => []BoardInv
<1>1. TypeOK /\ BoardInv /\ [Next]_vars => BoardInv'
  BY BoardKeeps
<1> QED
  BY <1>1, InitBoard, TypeCorrect, PTL DEF Spec

\* When IDs do not coincide, and edits are not mixed with other requests for
\* the history, an event whose deletion or reroll was answered with success is
\* never in the history again: no copy of it that a handler took before is
\* written back, however many requests move, reroll and delete it at once.
THEOREM DeletedForGood ==
  ASSUME EditsAlone
  PROVE  Spec => []DeletedStaysDeleted
<1>1. BoardInv => DeletedStaysDeleted
  BY DEF BoardInv, OnBoard, Off, Board, DeletedStaysDeleted
<1> QED
  BY <1>1, BoardAlways, PTL

\* Under the same condition a roll is rerolled once, and is then no longer in
\* the history: two handlers may both have read it, and both have drawn the ID
\* of a reroll, but only one of them posts it.
THEOREM OneReroll ==
  ASSUME EditsAlone
  PROVE  Spec => []RerolledOnce
<1>1. BoardInv => RerolledOnce
  BY DEF BoardInv, OnBoard, Rerolled, Off, Board, RerolledOnce
<1> QED
  BY <1>1, BoardAlways, PTL
-----------------------------------------------------------------------------
(* The refinement: on the board, each handler is one step of AtomicHistory. *)

LEMMA AtomicInit == Init => Atomic!Init
<1> SUFFICES ASSUME Init PROVE Atomic!Init
  OBVIOUS
<1>1. hist \cup Carried = hist /\ gone = {}
  BY InitBoard DEF Board, Init
<1>2. \A e \in hist : e.ty = "playerJoin"
  BY DEF Init, MakeCore
<1> QED
  BY <1>1, <1>2 DEF Atomic!Init

\* What PostEvent does: it creates a roll, or reshares or rerolls an event.
LEMMA AtomicPost ==
  ASSUME TypeOK, BoardInv, NEW w \in Workers, PostEvent(w)
  PROVE  Atomic!Next
<1> DEFINE old == job[w].old
           new == job[w].new
<1>1. /\ Brings(w) /\ Busy(w) /\ old \in Event /\ new \in Event
      /\ job[w].op \in {"roll", "initiative", "share", "reroll"}
      /\ Shape(w) /\ Bringing(w)
  BY PostBoard DEF Brings, BoardInv
<1>2. job[w].op # "share" => Atomic!Fresh(new.id)
  BY <1>1 DEF Bringing, Off, Board, Atomic!Fresh, Atomic!Ids
<1>3. CASE job[w].op \in {"roll", "initiative"}
  <2>1. Board' = Board \cup {new} /\ gone' = gone
    BY <1>3, PostBoard
  <2>2. new.edit = 0 /\ new.ty \notin {"playerJoin", "rerollFailures"}
    BY <1>1, <1>3 DEF Shape
  <2>3. Atomic!Create(new) /\ new \in Board'
    BY <1>2, <1>3, <2>1, <2>2 DEF Atomic!Create, Board
  <2> QED
    BY <2>3 DEF Atomic!Next, Board
<1>4. CASE job[w].op = "share"
  <2>1. /\ old \in Board
        /\ Board' = (Board \ {old}) \cup {new} /\ gone' = gone
    BY <1>4, PostBoard
  <2>2. old.ty # "playerJoin" /\ new = [old EXCEPT !.share = new.share]
    BY <1>1, <1>4 DEF Shape
  <2>3. new.share \in {"inGame", "private"}
    BY <1>1 DEF Event, Shares
  <2>4. Atomic!Reshare(old, new.share)
    BY <2>1, <2>2, Zenon DEF Atomic!Reshare, Board
  <2> QED
    BY <2>1, <2>3, <2>4 DEF Atomic!Next, Board
<1>5. CASE job[w].op = "reroll"
  <2>1. /\ old \in Board
        /\ Board' = (Board \ {old}) \cup {new}
        /\ gone' = gone \cup {old.id}
    BY <1>5, PostBoard
  <2>2. /\ old.ty = "roll" /\ new.ty = "rerollFailures"
        /\ new.prev = old.id
        /\ new.share = old.share /\ new.title = old.title
    BY <1>1, <1>5 DEF Shape
  <2>3. Atomic!Reroll(old, new) /\ new \in Board'
    BY <1>2, <1>5, <2>1, <2>2 DEF Atomic!Reroll, Board
  <2> QED
    BY <2>1, <2>3 DEF Atomic!Next, Board
<1> QED
  BY <1>1, <1>3, <1>4, <1>5

\* What DeleteEvent does: nothing, or it removes the event, or it reshares it
\* the way the copy it carries was shared.
LEMMA AtomicDelete ==
  ASSUME TypeOK, BoardInv, NEW w \in Workers, DeleteEvent(w)
  PROVE  Atomic!Next \/ (Board' = Board /\ gone' = gone)
<1> DEFINE old == job[w].old
<1>1. /\ Busy(w) /\ old \in Event /\ Shape(w) /\ Copied(w)
      /\ hist \subseteq Board /\ Board \subseteq Event
  BY DeleteBoard, Numbers DEF BoardInv, Board
<1>2. ASSUME NEW f \in hist, f.id = old.id, job[w].op = "delete",
             Board' = Board \ {f}, gone' = gone \cup {old.id}
      PROVE  Atomic!Next
  <2>1. f \in Board /\ f.ty # "playerJoin"
    BY <1>1, <1>2 DEF Shape, Copied, Alike
  <2>2. Atomic!Remove(f)
    BY <1>2, <2>1 DEF Atomic!Remove, Board
  <2> QED
    BY <2>1, <2>2 DEF Atomic!Next, Board
<1>3. ASSUME NEW f \in hist, f.id = old.id, job[w].op \in {"share", "reroll"},
             Board' = (Board \ {f}) \cup {old}, gone' = gone
      PROVE  Atomic!Next
  <2>1. f \in Board /\ f \in Event /\ Alike(f, old) /\ f.ty # "playerJoin"
    BY <1>1, <1>3 DEF Shape, Copied, Alike
  <2>2. old = [f EXCEPT !.share = old.share]
    BY <1>1, <2>1 DEF Event, Alike
  <2>3. old.share \in {"inGame", "private"}
    BY <1>1 DEF Event, Shares
  <2>4. Atomic!Reshare(f, old.share)
    BY <1>3, <2>1, <2>2, Zenon DEF Atomic!Reshare, Board
  <2> QED
    BY <2>1, <2>3, <2>4 DEF Atomic!Next, Board
<1> QED
  BY <1>2, <1>3, DeleteBoard

\* What UpdateEvent does: it edits the event.
LEMMA AtomicUpdate ==
  ASSUME TypeOK, BoardInv, EditsAlone, NEW w \in Workers, UpdateEvent(w)
  PROVE  Atomic!Next
<1> DEFINE old == job[w].old
           new == job[w].new
<1>1. /\ Busy(w) /\ job[w].op \in Edits /\ old \in Board
      /\ Board' = (Board \ {old}) \cup {new} /\ gone' = gone
  BY UpdateBoard
<1>2. /\ old.ty # "playerJoin"
      /\ new.id = old.id /\ new.ty = old.ty /\ new.owner = old.owner
      /\ new.share = old.share /\ new.prev = old.prev
  BY <1>1 DEF BoardInv, Shape
<1>3. Atomic!Edit(old, new) /\ new \in Board'
  BY <1>1, <1>2 DEF Atomic!Edit, Board
<1> QED
  BY <1>1, <1>3 DEF Atomic!Next, Board

\* What a failure does: nothing, or it loses the event that is carried.
LEMMA AtomicStop ==
  ASSUME TypeOK, BoardInv, NEW w \in Workers, Stop(w)
  PROVE  Atomic!Next \/ (Board' = Board /\ gone' = gone)
<1> DEFINE old == job[w].old
<1>1. CASE Board' = Board
  BY <1>1, StopBoard
<1>2. CASE /\ Faults /\ Carries(w) /\ old \in Board
           /\ Board' = Board \ {old}
  <2>1. gone' = gone /\ old.ty # "playerJoin"
    BY <1>2, StopBoard DEF BoardInv, Shape, Carries
  <2>2. Atomic!Lose(old)
    BY <1>2, <2>1 DEF Atomic!Lose, Board
  <2> QED
    BY <1>2, <2>2 DEF Atomic!Next, Board
<1> QED
  BY <1>1, <1>2, StopBoard

\* The handlers implement AtomicHistory, when IDs do not coincide and edits are
\* not mixed with other requests: though each moves an event in two
\* transactions and by way of a copy, the board, which is the history and what
\* is being moved, only ever changes as if each request had happened at once.
THEOREM ImplementsAtomic ==
  ASSUME EditsAlone
  PROVE  Spec => AtomicSpec
<1>1. TypeOK /\ BoardInv /\ [Next]_vars =>
        [Atomic!Next]_<<hist \cup Carried, gone>>
  <2> SUFFICES ASSUME TypeOK, BoardInv, [Next]_vars
               PROVE  Atomic!Next \/ (Board' = Board /\ gone' = gone)
    BY DEF Board
  <2>1. CASE Next
    <3>1. PICK w \in Workers : Beginning(w) \/ Transaction(w)
      BY <2>1 DEF Next, Beginning, Transaction
    <3> QED
      BY <3>1, BeginningKeeps, AtomicPost, AtomicDelete, AtomicUpdate,
         AtomicStop DEF Transaction
  <2>2. CASE UNCHANGED vars
    BY <2>2 DEF vars, Board, Carried
  <2> QED
    BY <2>1, <2>2
<1> QED
  BY <1>1, AtomicInit, BoardAlways, TypeCorrect, PTL
  DEF Spec, AtomicSpec, Atomic!Spec
-----------------------------------------------------------------------------
(* The clients' histories. It takes, besides, that the share of an event is  *)
(* not changed beside other requests: a copy that was taken before the share *)
(* changed is deleted on the channel of those who saw it then.               *)

MovesAlone == Distinct /\ (Alone \/ Requests \cap (Edits \cup {"share"}) = {})

\* What an edit may change.
Revised(old, new) == new = [old EXCEPT !.edit = new.edit, !.title = new.title]

\* A copy is of the event that has its ID, and what an edit changes of it is
\* what its diff says.
Exact(w) ==
    LET old == job[w].old
        new == job[w].new
    IN
    Busy(w) =>
        /\ \A e \in hist : e.id = old.id => e = old
        /\ job[w].op \in Edits =>
              /\ Revised(old, new)
              /\ ~ job[w].titled => new.title = old.title

AgreeInv == ClientsAgree /\ \A w \in Workers : Exact(w)

LEMMA InitAgrees == Init => AgreeInv
<1> SUFFICES ASSUME Init PROVE AgreeInv
  OBVIOUS
<1>1. \A e \in hist : e.share = "inGame"
  BY DEF Init, MakeCore
<1>2. ClientsAgree
  BY <1>1 DEF Init, ClientsAgree, PlayerCanSeeEvent
<1>3. job = [w \in Workers |-> Idle]
  BY DEF Init
<1>4. ASSUME NEW w \in Workers PROVE ~ Busy(w)
  BY <1>3 DEF Busy
<1> QED
  BY <1>2, <1>4 DEF AgreeInv, Exact

\* Whatever a handler begins, with an event of the history or under a new ID.
LEMMA StartAgrees ==
  ASSUME TypeOK, BoardInv, AgreeInv, NEW w \in Workers,
         NEW op \in Endpoints, NEW step \in {"post", "delete", "update"},
         NEW old \in Event, NEW new \in Event, NEW titled \in BOOLEAN,
         Start(w, op, step, old, new, titled),
         old \in hist \/ now < old.id,
         op \in Edits =>
            /\ Revised(old, new)
            /\ ~ titled => new.title = old.title
  PROVE  AgreeInv'
<1>1. /\ hist' = hist
      /\ job'[w].op = op /\ job'[w].old = old /\ job'[w].new = new
      /\ \A v \in Workers \ {w} : job'[v] = job[v]
  BY StartEffect
<1>2. view' = view /\ job'[w].titled = titled
  BY DEF Start, TypeOK
<1>3. ClientsAgree'
  BY <1>1, <1>2 DEF AgreeInv, ClientsAgree, PlayerCanSeeEvent
<1>4. \A e \in hist : e.id = old.id => e = old
  <2>1. CASE old \in hist
    BY <2>1 DEF BoardInv, OnBoard, Board
  <2>2. CASE now < old.id
    <3>1. /\ now \in Nat /\ old.id \in Nat
          /\ \A e \in hist : e.id \in Nat /\ e.id <= now
      BY ConstantsAssumption, Numbers DEF Event, Time, BoardInv, Drawn, Board
    <3> QED
      BY <2>2, <3>1
  <2> QED
    BY <2>1, <2>2
<1>5. Exact(w)'
  BY <1>1, <1>2, <1>4 DEF Exact
<1>6. ASSUME NEW v \in Workers \ {w} PROVE Exact(v)'
  BY <1>1 DEF AgreeInv, Exact, Busy
<1> QED
  BY <1>3, <1>5, <1>6 DEF AgreeInv

LEMMA BeginningAgrees ==
  ASSUME TypeOK, BoardInv, AgreeInv, MovesAlone, NEW w \in Workers, Beginning(w)
  PROVE  AgreeInv'
<1>0. /\ hist \subseteq Event
      /\ \A t \in NewEventID : t \in Time /\ now < t
  BY ConstantsAssumption, Numbers DEF TypeOK, NewEventID, MovesAlone, Time
\* A new event.
<1>1. ASSUME NEW op \in {"roll", "initiative"},
             NEW ty \in {"roll", "edgeRoll", "initiativeRoll"},
             PostNew(w, op, ty)
      PROVE  AgreeInv'
  <2>1. PICK p \in Players, s \in Shares, n \in Titles, t \in NewEventID :
          Start(w, op, "post", MakeCore(t, ty, p, s, n),
                MakeCore(t, ty, p, s, n), FALSE)
    BY <1>1 DEF PostNew
  <2> DEFINE e == MakeCore(t, ty, p, s, n)
  <2>2. e \in Event /\ now < e.id
    <3>1. e.id = t
      BY DEF MakeCore
    <3> QED
      BY <1>0, <3>1, MakeCoreType DEF Types
  <2>3. op \in Endpoints /\ op \notin Edits
    BY DEF Endpoints, Edits
  <2> HIDE DEF e
  <2> QED
    BY <2>1, <2>2, <2>3, StartAgrees DEF e
<1>2. CASE Roll(w)
  BY <1>1, <1>2 DEF Roll
<1>3. CASE RollInitiative(w)
  BY <1>1, <1>3 DEF RollInitiative
\* A copy that is to be deleted.
<1>4. ASSUME NEW e \in hist, NEW f \in Event,
             NEW op \in {"reroll", "delete", "share"},
             Start(w, op, "delete", e, f, FALSE)
      PROVE  AgreeInv'
  <2>1. e \in Event /\ op \in Endpoints /\ op \notin Edits
    BY <1>0 DEF Endpoints, Edits
  <2> QED
    BY <1>4, <2>1, StartAgrees
<1>5. CASE Reroll(w)
  <2>1. PICK e \in hist, p \in Players, t \in NewEventID :
          Start(w, "reroll", "delete", e, ForReroll(t, p, e), FALSE)
    BY <1>5 DEF Reroll, GetByID, At
  <2>2. ForReroll(t, p, e) \in Event
    BY <1>0, ForRerollType
  <2> QED
    BY <1>4, <2>1, <2>2
<1>6. CASE Delete(w)
  BY <1>0, <1>4, <1>6 DEF Delete, GetByID, At
<1>7. CASE ShareEvent(w)
  <2>1. PICK e \in hist, s \in Shares :
          Start(w, "share", "delete", e, [e EXCEPT !.share = s], FALSE)
    BY <1>7 DEF ShareEvent, UpdateEventShare, GetByID, At
  <2>2. [e EXCEPT !.share = s] \in Event
    BY <1>0, ShareType
  <2> QED
    BY <1>4, <2>1, <2>2
\* An edit.
<1>8. ASSUME NEW e \in hist, NEW n \in Titles, NEW t \in NewEventID,
             NEW titled \in BOOLEAN, NEW op \in Edits,
             ~ titled => n = e.title,
             Start(w, op, "update", e, [e EXCEPT !.edit = t, !.title = n],
                   titled)
      PROVE  AgreeInv'
  <2> DEFINE f == [e EXCEPT !.edit = t, !.title = n]
  <2>1. e \in Event /\ t \in Time
    BY <1>0
  <2>2. f \in Event
    BY <2>1, ModifyType, Zenon
  <2>3. f.edit = t /\ f.title = n
    BY <2>1 DEF Event
  <2>4. Revised(e, f)
    BY <2>3, Zenon DEF Revised
  <2>5. op \in Endpoints
    BY DEF Edits, Endpoints
  <2> HIDE DEF f
  <2>6. Start(w, op, "update", e, f, titled)
    BY <1>8 DEF f
  <2> QED
    BY <1>8, <2>1, <2>2, <2>3, <2>4, <2>5, <2>6, StartAgrees
<1>9. CASE ModifyEvent(w)
  BY <1>8, <1>9, ZenonT(60) DEF ModifyEvent, GetByID, At, Edits
<1>10. CASE EditInitiative(w)
  <2>1. PICK e \in hist, n \in Titles, t \in NewEventID :
          Start(w, "editInitiative", "update", e,
                [e EXCEPT !.edit = t, !.title = n], n # e.title)
    BY <1>10, Zenon DEF EditInitiative, GetByID, At
  <2>2. (n # e.title) \in BOOLEAN /\ "editInitiative" \in Edits
    BY DEF Edits
  <2>3. ~ (n # e.title) => n = e.title
    OBVIOUS
  <2> QED
    BY <1>8, <2>1, <2>2, <2>3, ZenonT(60)
<1> QED
  BY <1>2, <1>3, <1>5, <1>6, <1>7, <1>9, <1>10 DEF Beginning

\* The others' copies, when what is added is new to them, or there are none.
LEMMA OthersExact ==
  ASSUME TypeOK, BoardInv, AgreeInv, MovesAlone, NEW w \in Workers,
         NEW v \in Workers \ {w},
         \A u \in Workers \ {w} : job'[u] = job[u],
         \A e \in hist' : e \in hist \/ (Brings(w) /\ e = job[w].new)
  PROVE  Exact(v)'
<1>1. job'[v] = job[v] /\ Exact(v)
  BY DEF AgreeInv
<1>2. Busy(v)' <=> Busy(v)
  BY <1>1 DEF Busy
<1>3. Requests \cap (Edits \cup {"share"}) = {}
  BY DEF MovesAlone, Alone
<1>4. Brings(w) => Busy(w) /\ job[w].op # "share"
  BY <1>3 DEF Brings, BoardInv, Shape
<1>5. Brings(w) /\ Busy(v) => job[v].old.id # job[w].new.id
  BY <1>4 DEF BoardInv, Bringing
<1>6. ASSUME Busy(v), NEW e \in hist', e.id = job[v].old.id
      PROVE  e = job[v].old
  BY <1>1, <1>5, <1>6 DEF Exact
<1> QED
  BY <1>1, <1>2, <1>6 DEF Exact

\* The players that a message about an event goes to are those who can see it.
LEMMA AudienceSees ==
  ASSUME NEW e \in Event
  PROVE  \A p \in Players : p \in Audience(e) <=> PlayerCanSeeEvent(p, e)
  BY DEF Event, Shares, Audience, PlayerCanSeeEvent

LEMMA PostAgrees ==
  ASSUME TypeOK, BoardInv, AgreeInv, MovesAlone, NEW w \in Workers, PostEvent(w)
  PROVE  AgreeInv'
<1> DEFINE new == job[w].new
<1>1. /\ Brings(w) /\ job[w].old \in Event /\ new \in Event
      /\ ~ Busy(w)' /\ hist' = hist \cup {new}
      /\ \A v \in Workers \ {w} : job'[v] = job[v]
  BY PostBoard
<1>2. \A e \in hist : e.id # new.id
  <2>1. CASE job[w].op # "share"
    BY <1>1, <2>1 DEF BoardInv, Bringing, Off, Board
  <2>2. CASE job[w].op = "share"
    <3>1. Busy(w) /\ Carries(w)
      BY <2>2, PostBoard DEF Carries
    <3>2. new = [job[w].old EXCEPT !.share = new.share]
      BY <2>2, <3>1 DEF BoardInv, Shape
    <3>3. new.id = job[w].old.id
      BY <1>1, <3>2 DEF Event
    <3> QED
      BY <3>1, <3>3 DEF BoardInv, Carrying, NoRecord
  <2> QED
    BY <2>1, <2>2
<1>3. ASSUME NEW p \in Players
      PROVE  view'[p] = {e \in hist' : PlayerCanSeeEvent(p, e)}
  <2>1. view[p] = {e \in hist : PlayerCanSeeEvent(p, e)}
    BY DEF AgreeInv, ClientsAgree
  <2>2. view'[p] = IF p \in Audience(new)
                   THEN ClientPost(view[p], new) ELSE view[p]
    BY DEF PostEvent
  <2>3. p \in Audience(new) <=> PlayerCanSeeEvent(p, new)
    BY <1>1, AudienceSees
  <2>4. CASE PlayerCanSeeEvent(p, new)
    BY <1>1, <1>2, <2>1, <2>2, <2>3, <2>4 DEF ClientPost
  <2>5. CASE ~ PlayerCanSeeEvent(p, new)
    BY <1>1, <2>1, <2>2, <2>3, <2>5
  <2> QED
    BY <2>4, <2>5
<1>4. ClientsAgree'
  BY <1>3 DEF ClientsAgree, PlayerCanSeeEvent
<1>5. Exact(w)'
  BY <1>1 DEF Exact
<1>6. \A v \in Workers \ {w} : Exact(v)'
  BY <1>1, OthersExact
<1> QED
  BY <1>4, <1>5, <1>6 DEF AgreeInv

LEMMA DeleteAgrees ==
  ASSUME TypeOK, BoardInv, AgreeInv, MovesAlone, NEW w \in Workers,
         DeleteEvent(w)
  PROVE  AgreeInv'
<1> DEFINE old == job[w].old
<1>1. /\ Busy(w) /\ old \in Event /\ hist' \subseteq hist
      /\ \A v \in Workers \ {w} : job'[v] = job[v]
  BY DeleteBoard
<1>2. hist' = hist \ At(old.id)
  BY DEF DeleteEvent
<1>3. \A e \in hist : e.id = old.id => e = old
  BY <1>1 DEF AgreeInv, Exact
<1>4. ASSUME NEW p \in Players
      PROVE  view'[p] = {e \in hist' : PlayerCanSeeEvent(p, e)}
  <2>1. view[p] = {e \in hist : PlayerCanSeeEvent(p, e)}
    BY DEF AgreeInv, ClientsAgree
  <2>2. view'[p] = IF p \in Audience(old)
                   THEN ClientDelete(view[p], old) ELSE view[p]
    BY DEF DeleteEvent
  <2>3. p \in Audience(old) <=> PlayerCanSeeEvent(p, old)
    BY <1>1, AudienceSees
  <2>4. CASE PlayerCanSeeEvent(p, old)
    BY <1>2, <2>1, <2>2, <2>3, <2>4 DEF ClientDelete, At
  <2>5. CASE ~ PlayerCanSeeEvent(p, old)
    BY <1>2, <1>3, <2>1, <2>2, <2>3, <2>5 DEF At
  <2> QED
    BY <2>4, <2>5
<1>5. ClientsAgree'
  BY <1>4 DEF ClientsAgree, PlayerCanSeeEvent
<1>6. Exact(w)'
  <2>1. CASE ~ Busy(w)'
    BY <2>1 DEF Exact
  <2>2. CASE Busy(w)'
    <3>1. job'[w].old = old /\ job'[w].op \notin Edits
      BY <2>2, DeleteBoard DEF Edits
    <3> QED
      BY <1>1, <1>3, <3>1 DEF Exact
  <2> QED
    BY <2>1, <2>2
<1>7. \A v \in Workers \ {w} : Exact(v)'
  BY <1>1, OthersExact
<1> QED
  BY <1>5, <1>6, <1>7 DEF AgreeInv

LEMMA UpdateAgrees ==
  ASSUME TypeOK, BoardInv, AgreeInv, EditsAlone, NEW w \in Workers,
         UpdateEvent(w)
  PROVE  AgreeInv'
<1> DEFINE old == job[w].old
           new == job[w].new
           diff(x) == [x EXCEPT !.edit = new.edit,
                                !.title = IF job[w].titled
                                          THEN new.title ELSE @]
<1>1. /\ Alone /\ Busy(w) /\ job[w].op \in Edits /\ ~ Busy(w)'
      /\ hist' = (hist \ {old}) \cup {new}
      /\ old \in Board /\ Carried = {}
  BY UpdateBoard
<1>2. old \in hist /\ old \in Event /\ new \in Event
  BY <1>1, BusyType DEF Board, UpdateEvent
<1>3. /\ Revised(old, new)
      /\ ~ job[w].titled => new.title = old.title
      /\ \A e \in hist : e.id = old.id => e = old
  BY <1>1 DEF AgreeInv, Exact
<1>4. new.id = old.id /\ new.share = old.share /\ new.owner = old.owner
  BY <1>1 DEF BoardInv, Shape
<1>5. diff(old) = new
  <2>1. (IF job[w].titled THEN new.title ELSE old.title) = new.title
    BY <1>3, Zenon
  <2> QED
    BY <1>3, <2>1, Zenon DEF Revised
<1> HIDE DEF diff
<1>6. ASSUME NEW p \in Players
      PROVE  view'[p] = {e \in hist' : PlayerCanSeeEvent(p, e)}
  <2>1. view[p] = {e \in hist : PlayerCanSeeEvent(p, e)}
    BY DEF AgreeInv, ClientsAgree
  <2>2. view'[p] = IF p \in Audience(new)
                   THEN {IF x.id # new.id THEN x ELSE diff(x) : x \in view[p]}
                   ELSE view[p]
    BY Zenon DEF UpdateEvent, ClientDiff, diff
  <2>3. /\ p \in Audience(new) <=> PlayerCanSeeEvent(p, new)
        /\ PlayerCanSeeEvent(p, new) <=> PlayerCanSeeEvent(p, old)
    BY <1>2, <1>4, AudienceSees DEF PlayerCanSeeEvent
  <2>4. CASE PlayerCanSeeEvent(p, new)
    <3>1. \A x \in view[p] :
             (IF x.id # new.id THEN x ELSE diff(x)) =
             (IF x = old THEN new ELSE x)
      BY <1>3, <1>4, <1>5, <2>1
    <3>2. view'[p] = {IF x = old THEN new ELSE x : x \in view[p]}
      BY <2>2, <2>3, <2>4, <3>1
    <3>3. old \in view[p]
      BY <1>2, <2>1, <2>3, <2>4
    <3>4. view'[p] = (view[p] \ {old}) \cup {new}
      BY <3>2, <3>3
    <3> QED
      BY <1>1, <2>1, <2>4, <3>4
  <2>5. CASE ~ PlayerCanSeeEvent(p, new)
    BY <1>1, <2>1, <2>2, <2>3, <2>5
  <2> QED
    BY <2>4, <2>5
<1>7. ClientsAgree'
  BY <1>6 DEF ClientsAgree, PlayerCanSeeEvent
<1>8. ASSUME NEW v \in Workers PROVE Exact(v)'
  <2>1. v = w
    BY <1>1 DEF Alone
  <2> QED
    BY <1>1, <2>1 DEF Exact
<1> QED
  BY <1>7, <1>8 DEF AgreeInv

LEMMA StopAgrees ==
  ASSUME TypeOK, BoardInv, AgreeInv, MovesAlone, NEW w \in Workers, Stop(w)
  PROVE  AgreeInv'
<1>1. /\ ~ Busy(w)' /\ hist' = hist
      /\ \A v \in Workers \ {w} : job'[v] = job[v]
  BY StopBoard
<1>2. view' = view
  BY DEF Stop
<1>3. ClientsAgree'
  BY <1>1, <1>2 DEF AgreeInv, ClientsAgree, PlayerCanSeeEvent
<1>4. Exact(w)'
  BY <1>1 DEF Exact
<1>5. \A v \in Workers \ {w} : Exact(v)'
  BY <1>1, OthersExact
<1> QED
  BY <1>3, <1>4, <1>5 DEF AgreeInv

\* When IDs do not coincide, and events are neither edited nor shared beside
\* other requests for the history, the history each player's client builds from
\* the messages on his channels is what GET /events would answer, at any moment
\* and whichever requests stop halfway.
THEOREM ClientsInStep ==
  ASSUME MovesAlone
  PROVE  Spec => []ClientsAgree
<1>1. EditsAlone
  BY DEF MovesAlone, EditsAlone
<1>2. TypeOK /\ BoardInv /\ AgreeInv /\ [Next]_vars => AgreeInv'
  <2> SUFFICES ASSUME TypeOK, BoardInv, AgreeInv, [Next]_vars PROVE AgreeInv'
    OBVIOUS
  <2>1. CASE Next
    <3>1. PICK w \in Workers : Beginning(w) \/ Transaction(w)
      BY <2>1 DEF Next, Beginning, Transaction
    <3> QED
      BY <1>1, <3>1, BeginningAgrees, PostAgrees, DeleteAgrees, UpdateAgrees,
         StopAgrees DEF Transaction
  <2>2. CASE UNCHANGED vars
    BY <2>2 DEF vars, AgreeInv, ClientsAgree, PlayerCanSeeEvent, Exact, Busy
  <2> QED
    BY <2>1, <2>2
<1>3. AgreeInv => ClientsAgree
  BY DEF AgreeInv
<1>4. Spec => []BoardInv
  BY <1>1, BoardAlways
<1> QED
  BY <1>2, <1>3, <1>4, InitAgrees, TypeCorrect, PTL DEF Spec
=============================================================================
