--------------------------- MODULE Migration_proofs ---------------------------
(***************************************************************************)
(* Theorems about Migration, and so about the paging of Backfill, for any  *)
(* history, any page and batch size of two and more, and any number of     *)
(* runs of the task.                                                       *)
(***************************************************************************)
EXTENDS Migration, FiniteSetTheorems, TLAPS

\* The events up to an ID.
UpTo(i) == {e \in hist : e.id <= i}

\* GetBetween and GetOlderThan are both the newest N of the events up to new.
Page(H, new, N) ==
    {e \in H : /\ e.id <= new
               /\ Cardinality({f \in H : e.id < f.id /\ f.id <= new}) < N}

Unique(H) == \A e, f \in H : e.id = f.id => e = f

\* The client has the event, or the task has shown it to its player.
Known(e) == e.id \in known \cup untold

\* An ID names one event of the history and one of the batch. An event that is
\* being shared is in nobody else's hands, and not in the history. None is newer
\* than the last ID.
Records ==
    /\ Unique(hist) /\ Unique(batch)
    /\ \A e \in hist \cup batch : e.id <= lastID
    /\ \A h \in Handlers : copy[h].id <= lastID
    /\ \A h \in Handlers : step[h] = "post" => copy[h].id \notin IDs(hist)
    /\ \A h, g \in Handlers :
          step[h] = "post" /\ step[g] = "post" /\ copy[h].id = copy[g].id => h = g

\* What the client has at each point of its paging.
Paging ==
    /\ client = "asking" =>
          \A e \in Visible(hist) : e.id >= newest => Known(e)
    /\ client = "waiting" =>
          \A e \in Visible(hist) :
              e.id >= (IF reply.more THEN reply.lastID ELSE reached) =>
                  Known(e) \/ e.id \in reply.ids
    /\ client = "done" =>
          \A e \in Visible(hist) : e.id >= reached => Known(e)

\* How far the task has got.
Progress ==
    /\ task = "reading" => \A i \in pending : i <= newestID
    /\ task = "asking" =>
          \A i \in pending :
              i \in IDs(batch) \/ (batch # {} /\ \A j \in IDs(batch) : i < j)
    /\ task = "done" => pending = {}

MigrationInv == Records /\ Paging /\ Progress
-----------------------------------------------------------------------------
(* Lemmas about the operators. *)

LEMMA MinFact ==
  ASSUME NEW S \in SUBSET Nat, S # {}
  PROVE  Min(S) \in S /\ \A y \in S : Min(S) <= y
<1> DEFINE R == {ss \in Nat \X Nat : ss[1] < ss[2]}
<1>1. IsWellFoundedOn(R, Nat)
  BY NatLessThanWellFounded DEF OpToRel
<1> HIDE DEF R
<1>2. PICK x \in S : \A y \in S : ~ (<<y, x>> \in R)
  BY <1>1, WFMin
<1>3. ASSUME NEW y \in S PROVE x <= y
  <2>1. y \in Nat /\ x \in Nat
    OBVIOUS
  <2>2. ~ (<<y, x>> \in R)
    BY <1>2
  <2>3. ~ (y < x)
    BY <2>1, <2>2 DEF R
  <2> QED
    BY <2>1, <2>3
<1> QED
  BY <1>3 DEF Min

LEMMA MaxFact ==
  ASSUME NEW n \in Nat, NEW S \in SUBSET (0 .. n), S # {}
  PROVE  \E x \in S : \A y \in S : y <= x
<1> DEFINE T == {m \in 0 .. n : n - m \in S}
<1>1. \A y \in S : y \in 0 .. n /\ n - y \in 0 .. n /\ n - (n - y) = y
  OBVIOUS
<1>2. \A y \in S : n - y \in T
  BY <1>1
<1>3. T \in SUBSET Nat /\ T # {}
  <2>1. T \in SUBSET Nat
    OBVIOUS
  <2>2. T # {}
    <3> HIDE DEF T
    <3> QED
      BY <1>2
  <2> QED
    BY <2>1, <2>2
<1>4. Min(T) \in T /\ \A z \in T : Min(T) <= z
  BY <1>3, MinFact
<1>5. PICK m \in T : \A z \in T : m <= z
  BY <1>4
<1>6. m \in 0 .. n /\ n - m \in S
  OBVIOUS
<1>7. ASSUME NEW y \in S PROVE y <= n - m
  <2>1. m <= n - y
    BY <1>2, <1>5
  <2>2. y \in 0 .. n
    BY <1>1
  <2> QED
    BY <1>6, <2>1, <2>2
<1> QED
  BY <1>6, <1>7

\* Events and histories are finite, and IDs are numbers.
LEMMA EventsFinite ==
  ASSUME NEW E \in SUBSET Event
  PROVE  IsFiniteSet(E) /\ Cardinality(E) \in Nat
<1> DEFINE T == (1 .. MaxID) \X {"game", "mine", "theirs"}
           f == [e \in Event |-> <<e.id, e.share>>]
<1>1. IsFiniteSet(1 .. MaxID)
  BY BackfillAssumption, FS_Interval
<1>2. IsFiniteSet({"game", "mine", "theirs"})
  <2>1. IsFiniteSet({"game"})
    BY FS_Singleton
  <2>2. IsFiniteSet({"game"} \cup {"mine"})
    BY <2>1, FS_AddElement
  <2>3. IsFiniteSet({"game", "mine"} \cup {"theirs"})
    <3>1. {"game"} \cup {"mine"} = {"game", "mine"}
      OBVIOUS
    <3> QED
      BY <2>2, <3>1, FS_AddElement
  <2>4. {"game", "mine"} \cup {"theirs"} = {"game", "mine", "theirs"}
    OBVIOUS
  <2> QED
    BY <2>3, <2>4
<1>3. IsFiniteSet(T)
  BY <1>1, <1>2, FS_Product
<1>4. f \in [Event -> T]
  BY DEF Event
<1>5. \A d, e \in Event : f[d] = f[e] => d = e
  BY DEF Event
<1>6. f \in Injection(Event, T)
  BY <1>4, <1>5 DEF Injection, IsInjective
<1>7. IsFiniteSet(Event)
  BY <1>3, <1>6, FS_Injection
<1>8. IsFiniteSet(E)
  BY <1>7, FS_Subset
<1> QED
  BY <1>8, FS_CardinalityType

LEMMA IdType ==
  ASSUME NEW E \in SUBSET Event
  PROVE  /\ IDs(E) \in SUBSET (1 .. MaxID) /\ IDs(E) \in SUBSET Nat
         /\ E # {} => Min(IDs(E)) \in IDs(E) /\ \A i \in IDs(E) : Min(IDs(E)) <= i
<1>1. IDs(E) \in SUBSET (1 .. MaxID)
  BY DEF IDs, Event
<1>2. IDs(E) \in SUBSET Nat
  BY <1>1, BackfillAssumption
<1>3. E # {} => IDs(E) # {}
  BY DEF IDs
<1> QED
  BY <1>1, <1>2, <1>3, MinFact

\* With an event, a page has every newer one that it may have.
LEMMA PageUp ==
  ASSUME NEW H \in SUBSET Event, NEW new \in Nat, NEW N \in Nat,
         NEW e \in Page(H, new, N), NEW f \in H, e.id <= f.id, f.id <= new
  PROVE  f \in Page(H, new, N)
<1> DEFINE A(x) == {g \in H : x.id < g.id /\ g.id <= new}
<1>1. e \in H /\ Cardinality(A(e)) < N
  BY DEF Page
<1>2. e.id \in Nat /\ f.id \in Nat /\ \A g \in H : g.id \in Nat
  BY <1>1, BackfillAssumption DEF Event
<1>3. A(f) \in SUBSET A(e) /\ A(f) \in SUBSET Event /\ A(e) \in SUBSET Event
  BY <1>2
<1>4. /\ Cardinality(A(f)) \in Nat /\ Cardinality(A(e)) \in Nat
      /\ IsFiniteSet(A(e))
  BY <1>3, EventsFinite
<1>5. Cardinality(A(f)) <= Cardinality(A(e))
  BY <1>3, <1>4, FS_Subset
<1> HIDE DEF A
<1>6. Cardinality(A(f)) < N
  BY <1>1, <1>4, <1>5
<1> QED
  BY <1>6 DEF Page, A

\* A page has no more events than it may have.
LEMMA PageSize ==
  ASSUME NEW H \in SUBSET Event, Unique(H), NEW new \in Nat, NEW N \in Nat
  PROVE  Cardinality(Page(H, new, N)) <= N
<1> DEFINE P == Page(H, new, N)
           A(x) == {g \in H : x.id < g.id /\ g.id <= new}
<1>1. P \in SUBSET Event /\ P \subseteq H
  BY DEF Page
<1>2. CASE P = {}
  BY <1>2, FS_EmptySet
<1>3. CASE P # {}
  <2>1. PICK e \in P : \A f \in P : e.id <= f.id
    <3>1. Min(IDs(P)) \in IDs(P) /\ \A i \in IDs(P) : Min(IDs(P)) <= i
      BY <1>1, <1>3, IdType
    <3> HIDE DEF P
    <3> QED
      BY <3>1 DEF IDs
  <2>2. Cardinality(A(e)) < N /\ \A f \in P : f.id <= new
    BY DEF Page
  <2>3. \A f \in P \ {e} : f \in A(e)
    <3>1. ASSUME NEW f \in P \ {e} PROVE e.id < f.id
      <4>1. e.id # f.id /\ e.id <= f.id
        BY <1>1, <2>1 DEF Unique
      <4>2. e.id \in Nat /\ f.id \in Nat
        BY <1>1, BackfillAssumption DEF Event
      <4> QED
        BY <4>1, <4>2
    <3> QED
      BY <1>1, <2>2, <3>1
  <2>4. /\ A(e) \in SUBSET Event /\ P \ {e} \in SUBSET A(e)
        /\ IsFiniteSet(A(e)) /\ Cardinality(A(e)) \in Nat
    BY <2>3, EventsFinite
  <2>5. Cardinality(P \ {e}) <= Cardinality(A(e))
    BY <2>4, FS_Subset
  <2>6. IsFiniteSet(P) /\ Cardinality(P) \in Nat
    BY <1>1, EventsFinite
  <2>7. Cardinality(P \ {e}) = Cardinality(P) - 1
    BY <2>6, FS_RemoveElement
  <2> HIDE DEF P, A
  <2>8. Cardinality(P) <= N
    BY <2>2, <2>4, <2>5, <2>6, <2>7
  <2> QED
    BY <2>8 DEF P
<1> QED
  BY <1>2, <1>3

\* A page with fewer events has all there are.
LEMMA PageWhole ==
  ASSUME NEW H \in SUBSET Event, NEW new \in Nat, NEW N \in Nat,
         Cardinality(Page(H, new, N)) < N
  PROVE  \A e \in H : e.id <= new => e \in Page(H, new, N)
<1> DEFINE P == Page(H, new, N)
           A(x) == {g \in H : x.id < g.id /\ g.id <= new}
           M == {e \in H : e.id <= new /\ e \notin P}
<1>1. P \in SUBSET Event /\ IsFiniteSet(P) /\ Cardinality(P) \in Nat
  <2>1. P \in SUBSET Event
    BY DEF Page
  <2> QED
    BY <2>1, EventsFinite
<1>2. SUFFICES ASSUME M # {} PROVE FALSE
  OBVIOUS
<1>3. PICK e \in M : \A f \in M : f.id <= e.id
  <2>1. IDs(M) # {} /\ M \in SUBSET Event
    BY <1>2 DEF IDs
  <2>2. IDs(M) \in SUBSET (0 .. MaxID)
    BY <2>1, IdType, BackfillAssumption
  <2>3. PICK i \in IDs(M) : \A j \in IDs(M) : j <= i
    BY <2>1, <2>2, MaxFact, BackfillAssumption
  <2> HIDE DEF M
  <2> QED
    BY <2>3 DEF IDs
<1>4. A(e) \in SUBSET P
  <2> SUFFICES ASSUME NEW f \in A(e), f \notin P PROVE FALSE
    OBVIOUS
  <2>1. f.id <= e.id
    BY <1>3
  <2>2. e.id < f.id /\ e.id \in Nat /\ f.id \in Nat
    BY BackfillAssumption DEF Event
  <2> QED
    BY <2>1, <2>2
<1>5. Cardinality(A(e)) <= Cardinality(P)
  BY <1>1, <1>4, FS_Subset
<1>6. A(e) \in SUBSET Event
  OBVIOUS
<1>7. Cardinality(A(e)) \in Nat
  BY <1>6, EventsFinite
<1>8. Cardinality(A(e)) < N
  <2> HIDE DEF A, P
  <2> QED
    BY <1>1, <1>5, <1>7 DEF P
<1> QED
  BY <1>8 DEF Page
-----------------------------------------------------------------------------
(* The types. A batch is no larger than it may be because an ID names one    *)
(* event, even when deleted events have been written back.                   *)

LEMMA Numbers ==
  /\ 0 \in 0 .. MaxID /\ MaxID \in Nat /\ Inf \in Nat /\ MaxID <= Inf
  /\ MaxEventRange \in Nat /\ MaxEventRange > 1
  /\ BufferSize \in Nat /\ BufferSize > 1
  /\ 1 .. MaxID \subseteq 0 .. MaxID /\ 0 .. MaxID \subseteq 0 .. Inf
  BY BackfillAssumption, MigrationAssumption DEF Inf

LEMMA PageIs ==
  ASSUME TypeOK, NEW new \in Nat
  PROVE  /\ GetBetween(new) = Page(hist, new, MaxEventRange)
         /\ GetOlderThan(new) = Page(hist, new, BufferSize)
         /\ hist \in SUBSET Event
         /\ GetBetween(new) \in SUBSET Event
         /\ GetOlderThan(new) \in SUBSET Event
         /\ GetBetween(new) \subseteq hist
         /\ GetOlderThan(new) \subseteq hist
  BY DEF GetBetween, GetOlderThan, Page, TypeOK

LEMMA InitTypes == MigrationInit => MigrationTypeOK /\ MigrationInv
<1> SUFFICES ASSUME MigrationInit PROVE MigrationTypeOK /\ MigrationInv
  OBVIOUS
<1> USE DEF MigrationInit, Init
<1>1. TypeOK
  <2>1. newest \in 0 .. Inf /\ reached \in 0 .. MaxID
    BY Numbers
  <2>2. reply \in [ids : SUBSET (1 .. MaxID), lastID : 0 .. MaxID,
                   more : BOOLEAN]
    BY Numbers DEF NoReply
  <2>3. /\ step \in [Handlers -> {"idle", "read", "post"}]
        /\ copy \in [Handlers -> Event \cup {NoEvent}]
        /\ \A h \in Handlers : step[h] = "idle" <=> copy[h] = NoEvent
        /\ removals \in 0 .. MaxRemovals
    BY BackfillAssumption
  <2> QED
    BY <2>1, <2>2, <2>3 DEF TypeOK
<1>2. Cardinality(batch) <= BufferSize
  BY Numbers, FS_EmptySet
<1>3. newestID \in 0 .. MaxID /\ runs \in 0 .. MaxRuns
  BY Numbers, MigrationAssumption
<1>4. MigrationTypeOK
  BY <1>1, <1>2, <1>3 DEF MigrationTypeOK
<1>5. Records
  <2>1. \A h \in Handlers : step[h] = "idle" /\ copy[h].id = 0
    BY DEF NoEvent
  <2>2. 0 <= lastID
    BY Numbers
  <2> QED
    BY <2>1, <2>2 DEF Records, Unique
<1>6. \A e \in hist : ~ (e.id >= newest)
  BY <1>1, Numbers DEF TypeOK, Event, Inf
<1>7. Paging
  BY <1>6 DEF Paging, Visible
<1>8. Progress
  BY DEF Progress
<1> QED
  BY <1>4, <1>5, <1>7, <1>8 DEF MigrationInv

\* A response to the client, in types and in what it means.
LEMMA ReplyType ==
  ASSUME TypeOK, HandleEvents
  PROVE  TypeOK'
<1> DEFINE page == GetBetween(newest)
<1>1. newest \in Nat
  BY Numbers DEF TypeOK
<1>2. page \in SUBSET Event /\ Shown(page) \in SUBSET Event
  BY <1>1, PageIs DEF Shown, Visible
<1>3. reached' \in 0 .. MaxID
  <2>1. CASE Shown(page) = {} /\ Cardinality(page) = MaxEventRange
    <3>1. page # {}
      BY <2>1, Numbers, FS_EmptySet
    <3>2. Min(IDs(page)) \in 0 .. MaxID
      BY <1>2, <3>1, IdType, Numbers
    <3> QED
      BY <2>1, <3>2 DEF HandleEvents
  <2>2. CASE ~ (Shown(page) = {} /\ Cardinality(page) = MaxEventRange)
    BY <2>2 DEF HandleEvents, TypeOK
  <2> QED
    BY <2>1, <2>2
<1>4. reply' \in [ids : SUBSET (1 .. MaxID), lastID : 0 .. MaxID,
                  more : BOOLEAN]
  <2>1. CASE Shown(page) = {}
    BY <2>1, Numbers DEF HandleEvents, NoReply
  <2>2. CASE Shown(page) # {}
    <3>1. /\ IDs(Shown(page)) \in SUBSET (1 .. MaxID)
          /\ Min(IDs(Shown(page))) \in 0 .. MaxID
      BY <1>2, <2>2, IdType, Numbers
    <3>2. reply' = [ids |-> IDs(Shown(page)),
                    lastID |-> Min(IDs(Shown(page))),
                    more |-> More(page)]
      BY <2>2 DEF HandleEvents
    <3>3. More(page) \in BOOLEAN
      BY DEF More
    <3> QED
      BY <3>1, <3>2, <3>3
  <2> QED
    BY <2>1, <2>2
<1>5. client' = "waiting" /\ UNCHANGED <<hist, lastID, newest, known>>
  BY DEF HandleEvents
<1>6. UNCHANGED <<step, copy, removals>>
  BY DEF HandleEvents, handling
<1> QED
  BY <1>3, <1>4, <1>5, <1>6 DEF TypeOK

\* What the parts of a handler's request do.
LEMMA EndsType ==
  ASSUME TypeOK, NEW h \in Handlers, Ends(h)
  PROVE  /\ step' \in [Handlers -> {"idle", "read", "post"}]
         /\ copy' \in [Handlers -> Event \cup {NoEvent}]
         /\ \A g \in Handlers : step'[g] = "idle" <=> copy'[g] = NoEvent
         /\ step'[h] = "idle" /\ copy'[h] = NoEvent
         /\ \A g \in Handlers \ {h} : step'[g] = step[g] /\ copy'[g] = copy[g]
<1>1. step \in [Handlers -> {"idle", "read", "post"}]
  BY DEF TypeOK
<1>2. copy \in [Handlers -> Event \cup {NoEvent}]
  BY DEF TypeOK
<1>3. /\ step' = [step EXCEPT ![h] = "idle"]
      /\ copy' = [copy EXCEPT ![h] = NoEvent]
  BY DEF Ends
<1>4. step' \in [Handlers -> {"idle", "read", "post"}]
  BY <1>1, <1>3
<1>5. copy' \in [Handlers -> Event \cup {NoEvent}]
  BY <1>2, <1>3
<1>6. step'[h] = "idle" /\ copy'[h] = NoEvent
  BY <1>1, <1>2, <1>3
<1>7. \A g \in Handlers \ {h} : step'[g] = step[g] /\ copy'[g] = copy[g]
  BY <1>1, <1>2, <1>3
<1>8. \A g \in Handlers : step[g] = "idle" <=> copy[g] = NoEvent
  BY DEF TypeOK
<1> QED
  BY <1>4, <1>5, <1>6, <1>7, <1>8

\* A handler that is about to delete or share has an event.
LEMMA HasEvent ==
  ASSUME TypeOK, NEW h \in Handlers, step[h] # "idle"
  PROVE  copy[h] \in Event
<1>1. copy[h] # NoEvent
  BY DEF TypeOK
<1> QED
  BY <1>1 DEF TypeOK

\* A handler sets out, or goes on with a share.
LEMMA HoldsType ==
  ASSUME TypeOK, NEW h \in Handlers, NEW e \in Event, NEW t \in {"read", "post"},
         step' = [step EXCEPT ![h] = t], copy' = [copy EXCEPT ![h] = e]
  PROVE  /\ step' \in [Handlers -> {"idle", "read", "post"}]
         /\ copy' \in [Handlers -> Event \cup {NoEvent}]
         /\ \A g \in Handlers : step'[g] = "idle" <=> copy'[g] = NoEvent
         /\ step'[h] = t /\ copy'[h] = e
         /\ \A g \in Handlers \ {h} : step'[g] = step[g] /\ copy'[g] = copy[g]
<1>1. step \in [Handlers -> {"idle", "read", "post"}]
  BY DEF TypeOK
<1>2. copy \in [Handlers -> Event \cup {NoEvent}]
  BY DEF TypeOK
<1>3. step' \in [Handlers -> {"idle", "read", "post"}]
  BY <1>1
<1>4. copy' \in [Handlers -> Event \cup {NoEvent}]
  BY <1>2
<1>5. step'[h] = t /\ copy'[h] = e
  BY <1>1, <1>2
<1>6. \A g \in Handlers \ {h} : step'[g] = step[g] /\ copy'[g] = copy[g]
  BY <1>1, <1>2
<1>7. \A g \in Handlers : step[g] = "idle" <=> copy[g] = NoEvent
  BY DEF TypeOK
<1>8. e # NoEvent
  <2>1. e.id # 0
    BY Numbers DEF Event
  <2> QED
    BY <2>1 DEF NoEvent
<1> QED
  BY <1>3, <1>4, <1>5, <1>6, <1>7, <1>8

\* What a batch has become: as many events, with the same IDs.
LEMMA MigratedFact ==
  ASSUME NEW E \in SUBSET Event, NEW F \in Migrated(E)
  PROVE  /\ F \in SUBSET Event /\ IDs(F) = IDs(E)
         /\ Unique(E) => Unique(F)
<1> DEFINE G(e, w) == IF e.share = "game" THEN e
                      ELSE [e EXCEPT !.share = w[e.id]]
<1>1. PICK w \in [IDs(E) -> {"mine", "theirs"}] : F = {G(e, w) : e \in E}
  BY DEF Migrated
<1>2. ASSUME NEW e \in E PROVE G(e, w) \in Event /\ G(e, w).id = e.id
  <2>1. e \in Event /\ e.id \in IDs(E)
    BY DEF IDs
  <2> QED
    BY <2>1 DEF Event
<1> HIDE DEF G
<1>3. F \in SUBSET Event
  BY <1>1, <1>2
<1>4. IDs(F) = IDs(E)
  BY <1>1, <1>2 DEF IDs
<1>5. Unique(E) => Unique(F)
  BY <1>1, <1>2 DEF Unique
<1> QED
  BY <1>3, <1>4, <1>5

LEMMA ServeType ==
  ASSUME TypeOK, Next
  PROVE  TypeOK'
<1>1. CASE HandleEvents
  BY <1>1, ReplyType
<1>2. CASE TakeReply
  <2>1. known' \subseteq 1 .. MaxID /\ newest' \in 0 .. Inf
    BY <1>2, Numbers DEF TakeReply, TypeOK
  <2>2. reply' \in [ids : SUBSET (1 .. MaxID), lastID : 0 .. MaxID,
                    more : BOOLEAN]
    BY <1>2, Numbers DEF TakeReply, NoReply
  <2> QED
    BY <1>2, <2>1, <2>2 DEF TakeReply, TypeOK, handling
<1>3. CASE PostEvent
  <2>1. PICK e \in Event : Add(e) /\ lastID' = e.id /\ UNCHANGED handling
    BY <1>3 DEF PostEvent
  <2>2. e.id \in 1 .. MaxID /\ e.id \in 0 .. MaxID
    BY Numbers DEF Event
  <2> QED
    BY <2>1, <2>2 DEF TypeOK, Add, handling
<1>4. ASSUME NEW h \in Handlers, ReadEvent(h) PROVE TypeOK'
  <2>1. PICK e \in hist : /\ step' = [step EXCEPT ![h] = "read"]
                          /\ copy' = [copy EXCEPT ![h] = e]
    BY <1>4 DEF ReadEvent
  <2>2. e \in Event
    BY DEF TypeOK
  <2>3. /\ step' \in [Handlers -> {"idle", "read", "post"}]
        /\ copy' \in [Handlers -> Event \cup {NoEvent}]
        /\ \A g \in Handlers : step'[g] = "idle" <=> copy'[g] = NoEvent
    BY <2>1, <2>2, HoldsType
  <2> QED
    BY <1>4, <2>3 DEF ReadEvent, TypeOK
<1>5. ASSUME NEW h \in Handlers, Remove(h),
             step' \in [Handlers -> {"idle", "read", "post"}],
             copy' \in [Handlers -> Event \cup {NoEvent}],
             \A g \in Handlers : step'[g] = "idle" <=> copy'[g] = NoEvent
      PROVE  TypeOK'
  <2>1. removals' \in 0 .. MaxRemovals
    BY <1>5, BackfillAssumption DEF Remove, TypeOK
  <2>2. hist' \subseteq Event /\ known' \subseteq 1 .. MaxID
    BY <1>5 DEF Remove, TypeOK
  <2>3. UNCHANGED <<lastID, client, newest, reply, reached>>
    BY <1>5 DEF Remove
  <2> QED
    BY <1>5, <2>1, <2>2, <2>3 DEF TypeOK
<1>6. ASSUME NEW h \in Handlers, DeleteEvent(h) PROVE TypeOK'
  BY <1>5, <1>6, EndsType DEF DeleteEvent
<1>7. ASSUME NEW h \in Handlers, ShareDelete(h) PROVE TypeOK'
  <2>1. CASE Ends(h)
    BY <1>5, <1>7, <2>1, EndsType DEF ShareDelete
  <2>2. CASE ~ Ends(h)
    <3>1. PICK e \in Event : /\ step' = [step EXCEPT ![h] = "post"]
                             /\ copy' = [copy EXCEPT ![h] = e]
      BY <1>7, <2>2 DEF ShareDelete
    <3>2. /\ step' \in [Handlers -> {"idle", "read", "post"}]
          /\ copy' \in [Handlers -> Event \cup {NoEvent}]
          /\ \A g \in Handlers : step'[g] = "idle" <=> copy'[g] = NoEvent
      BY <3>1, HoldsType
    <3> QED
      BY <1>5, <1>7, <3>2 DEF ShareDelete
  <2> QED
    BY <2>1, <2>2
<1>8. ASSUME NEW h \in Handlers, SharePost(h) PROVE TypeOK'
  <2>1. copy[h] \in Event /\ copy[h].id \in 1 .. MaxID
    BY <1>8, HasEvent DEF SharePost, Event
  <2>2. hist' \subseteq Event /\ known' \subseteq 1 .. MaxID
    BY <1>8, <2>1 DEF SharePost, Add, TypeOK
  <2>3. UNCHANGED <<lastID, client, newest, reply, reached, removals>>
    BY <1>8 DEF SharePost, Add
  <2>4. /\ step' \in [Handlers -> {"idle", "read", "post"}]
        /\ copy' \in [Handlers -> Event \cup {NoEvent}]
        /\ \A g \in Handlers : step'[g] = "idle" <=> copy'[g] = NoEvent
    BY <1>8, EndsType DEF SharePost
  <2> QED
    BY <2>2, <2>3, <2>4 DEF TypeOK
<1>9. ASSUME NEW h \in Handlers, Stop(h) PROVE TypeOK'
  <2>1. /\ step' \in [Handlers -> {"idle", "read", "post"}]
        /\ copy' \in [Handlers -> Event \cup {NoEvent}]
        /\ \A g \in Handlers : step'[g] = "idle" <=> copy'[g] = NoEvent
    BY <1>9, EndsType DEF Stop
  <2> QED
    BY <1>9, <2>1 DEF Stop, TypeOK
<1> QED
  BY <1>1, <1>2, <1>3, <1>4, <1>6, <1>7, <1>8, <1>9 DEF Next

LEMMA StepType ==
  ASSUME MigrationTypeOK, Records, MigrationNext
  PROVE  MigrationTypeOK'
<1>1. /\ TypeOK /\ batch \in SUBSET Event /\ newestID \in Nat
      /\ hist \in SUBSET Event
  BY Numbers DEF MigrationTypeOK, TypeOK
<1>2. CASE Serve
  <2>1. TypeOK'
    BY <1>1, <1>2, ServeType DEF Serve
  <2>2. pending' \subseteq IDs(hist)'
    BY <1>2 DEF Serve, Beside, IDs
  <2> QED
    BY <1>2, <2>1, <2>2 DEF Serve, Beside, MigrationTypeOK
<1>3. CASE StartTask
  <2>1. TypeOK' /\ IDs(hist)' = IDs(hist)
    BY <1>1, <1>3 DEF StartTask, vars, handling, TypeOK, IDs
  <2>2. runs' \in 0 .. MaxRuns /\ newestID' \in 0 .. MaxID
    BY <1>1, <1>3, MigrationAssumption DEF StartTask, MigrationTypeOK, TypeOK
  <2> QED
    BY <1>3, <2>1, <2>2 DEF StartTask, MigrationTypeOK
<1>4. CASE ReadBatch
  <2>1. TypeOK' /\ IDs(hist)' = IDs(hist)
    BY <1>1, <1>4 DEF ReadBatch, vars, handling, TypeOK, IDs
  <2>2. batch' \subseteq Event /\ Cardinality(batch') <= BufferSize
    <3>1. CASE batch' = {}
      BY <3>1, FS_EmptySet, Numbers
    <3>2. CASE batch' = GetOlderThan(newestID)
      <4>1. Unique(hist)
        BY DEF Records, Unique
      <4> QED
        BY <1>1, <3>2, <4>1, PageIs, PageSize, Numbers
    <3> QED
      BY <1>4, <3>1, <3>2 DEF ReadBatch
  <2>3. newestID' \in 0 .. MaxID /\ pending' \subseteq IDs(hist)'
    BY <1>4, <2>1, Numbers DEF ReadBatch, MigrationTypeOK
  <2> QED
    BY <1>4, <2>1, <2>2, <2>3 DEF ReadBatch, MigrationTypeOK
<1>5. CASE WriteBatch
  <2>0. PICK F \in Migrated(batch) : BulkUpdate(F)
    BY <1>5 DEF WriteBatch
  <2>1. /\ hist' = {e \in hist : e.id \notin IDs(F)} \cup F
        /\ untold' = untold \cup (IDs(Visible(F)) \ IDs(Visible(hist)))
        /\ pending' = pending \ IDs(batch)
        /\ batch' = {} /\ runs' = runs
        /\ UNCHANGED <<lastID, client, newest, reply, known, reached>>
        /\ UNCHANGED <<step, copy, removals>>
    BY <1>5, <2>0 DEF WriteBatch, BulkUpdate, handling
  <2>9. F \in SUBSET Event /\ IDs(F) = IDs(batch)
    BY <1>1, <2>0, MigratedFact
  <2>2. TypeOK'
    BY <1>1, <2>1, <2>9 DEF TypeOK
  <2>3. /\ task' \in {"off", "reading", "asking", "done", "failed"}
        /\ newestID' \in 0 .. MaxID
    <3>1. CASE batch = {}
      BY <1>5, <3>1, Numbers DEF WriteBatch, NextRound
    <3>2. CASE batch # {}
      <4>1. Min(IDs(batch)) \in 0 .. MaxID
        BY <1>1, <3>2, IdType, Numbers
      <4> QED
        BY <1>5, <3>2, <4>1 DEF WriteBatch, NextRound, NextNewest
    <3> QED
      BY <3>1, <3>2
  <2>4. pending' \subseteq IDs(hist)'
    <3>1. pending \subseteq IDs(hist)
      BY DEF MigrationTypeOK
    <3>2. \A i \in IDs(hist) : i \notin IDs(F) => i \in IDs(hist)'
      BY <2>1 DEF IDs
    <3> QED
      BY <2>1, <2>9, <3>1, <3>2
  <2>5. untold' \subseteq 1 .. MaxID
    <3>1. Visible(F) \in SUBSET Event
      BY <2>9 DEF Visible
    <3>2. IDs(Visible(F)) \in SUBSET (1 .. MaxID)
      BY <3>1, IdType
    <3> QED
      BY <2>1, <3>2 DEF MigrationTypeOK
  <2>6. Cardinality(batch') <= BufferSize
    BY <2>1, FS_EmptySet, Numbers
  <2> QED
    BY <2>1, <2>2, <2>3, <2>4, <2>5, <2>6 DEF MigrationTypeOK
<1>6. CASE CrashTask
  <2>1. TypeOK'
    BY <1>1, <1>6 DEF CrashTask, vars, handling, TypeOK
  <2>2. Cardinality(batch') <= BufferSize /\ newestID' \in 0 .. MaxID
    BY <1>6, FS_EmptySet, Numbers DEF CrashTask
  <2> QED
    BY <1>6, <2>1, <2>2 DEF CrashTask, MigrationTypeOK
<1> QED
  BY <1>2, <1>3, <1>4, <1>5, <1>6 DEF MigrationNext, Task
-----------------------------------------------------------------------------
(* The invariant. *)

\* A post brings an ID that was nowhere; a share takes an event out of the
\* history before it brings it back; the task writes the IDs it has read.
LEMMA RecordsStep ==
  ASSUME MigrationTypeOK, Records, MigrationNext
  PROVE  Records'
<1>1. /\ hist \in SUBSET Event /\ batch \in SUBSET Event
      /\ lastID \in Nat /\ newestID \in Nat /\ TypeOK
      /\ \A e \in hist \cup batch : e.id \in Nat
      /\ \A h \in Handlers : copy[h].id \in Nat
  BY Numbers DEF MigrationTypeOK, TypeOK, Event, NoEvent
<1>2. ASSUME hist' = hist, batch' \subseteq batch \/ batch' \subseteq hist,
             UNCHANGED <<lastID, step, copy>>
      PROVE  Records'
  BY <1>2 DEF Records, Unique, IDs
<1>3. CASE Serve
  <2>0. batch' = batch
    BY <1>3 DEF Serve, Beside
  <2>1. CASE HandleEvents \/ TakeReply
    BY <1>2, <2>0, <2>1 DEF HandleEvents, TakeReply, handling
  <2>2. CASE PostEvent
    <3>1. PICK e \in Event : /\ e.id = lastID + 1
                             /\ hist' = hist \cup {e} /\ lastID' = e.id
                             /\ UNCHANGED <<step, copy>>
      BY <2>2 DEF PostEvent, Add, handling
    <3>2. \A f \in hist \cup batch : f.id # e.id /\ f.id <= lastID'
      BY <1>1, <3>1 DEF Records
    <3>3. \A h \in Handlers : copy[h].id # e.id /\ copy[h].id <= lastID'
      BY <1>1, <3>1 DEF Records
    <3>4. e.id <= lastID'
      BY <1>1, <3>1
    <3> QED
      BY <2>0, <3>1, <3>2, <3>3, <3>4 DEF Records, Unique, IDs
  <2>3. ASSUME NEW h \in Handlers, ReadEvent(h) PROVE Records'
    <3>1. PICK e \in hist : /\ step' = [step EXCEPT ![h] = "read"]
                            /\ copy' = [copy EXCEPT ![h] = e]
                            /\ UNCHANGED <<hist, lastID>>
      BY <2>3 DEF ReadEvent
    <3>2. /\ step'[h] = "read" /\ copy'[h] = e
          /\ \A g \in Handlers \ {h} : step'[g] = step[g] /\ copy'[g] = copy[g]
      BY <1>1, <3>1, HoldsType
    <3> QED
      BY <2>0, <3>1, <3>2 DEF Records, Unique, IDs
  <2>4. ASSUME NEW h \in Handlers, Ends(h), hist' \subseteq hist,
               lastID' = lastID
        PROVE  Records'
    <3>1. /\ step'[h] = "idle" /\ copy'[h].id = 0
          /\ \A g \in Handlers \ {h} : step'[g] = step[g] /\ copy'[g] = copy[g]
      BY <1>1, <2>4, EndsType DEF NoEvent
    <3>2. \A g \in Handlers : copy'[g].id <= lastID'
      BY <1>1, <2>4, <3>1 DEF Records
    <3> QED
      BY <2>0, <2>4, <3>1, <3>2 DEF Records, Unique, IDs
  <2>5. ASSUME NEW h \in Handlers, DeleteEvent(h) \/ Stop(h) PROVE Records'
    BY <2>4, <2>5 DEF DeleteEvent, Remove, Stop
  <2>6. ASSUME NEW h \in Handlers, ShareDelete(h) PROVE Records'
    <3>1. /\ hist' = {e \in hist : e.id # copy[h].id} /\ lastID' = lastID
          /\ step[h] = "read"
      BY <2>6 DEF ShareDelete, Remove
    <3>2. CASE Ends(h)
      BY <2>4, <3>1, <3>2
    <3>3. CASE ~ Ends(h)
      <4>1. PICK e \in Event : /\ OtherShare(copy[h], e)
                               /\ step' = [step EXCEPT ![h] = "post"]
                               /\ copy' = [copy EXCEPT ![h] = e]
        BY <2>6, <3>3 DEF ShareDelete
      <4>2. /\ step'[h] = "post" /\ copy'[h] = e
            /\ \A g \in Handlers \ {h} : step'[g] = step[g] /\ copy'[g] = copy[g]
        BY <1>1, <4>1, HoldsType
      <4>3. e.id = copy[h].id /\ copy[h].id \in IDs(hist)
        BY <2>6, <3>3, <4>1 DEF ShareDelete, OtherShare
      <4>4. e.id \notin IDs(hist)' /\ IDs(hist)' \subseteq IDs(hist)
        BY <3>1, <4>3 DEF IDs
      <4>5. \A g \in Handlers \ {h} : step[g] = "post" => copy[g].id # e.id
        BY <4>3 DEF Records
      <4>6. Unique(hist') /\ hist' \subseteq hist
        BY <3>1 DEF Records, Unique
      <4>7. \A g \in Handlers : copy'[g].id <= lastID'
        BY <3>1, <4>2, <4>3 DEF Records
      <4>8. \A g \in Handlers : step'[g] = "post" => copy'[g].id \notin IDs(hist)'
        BY <4>2, <4>4 DEF Records
      <4>9. ASSUME NEW g \in Handlers, NEW k \in Handlers,
                   step'[g] = "post" /\ step'[k] = "post"
                   /\ copy'[g].id = copy'[k].id
            PROVE  g = k
        <5>1. ASSUME NEW i \in Handlers \ {h}, step'[i] = "post"
              PROVE  copy'[i].id # copy'[h].id
          BY <4>2, <4>5, <5>1
        <5>2. CASE g = h \/ k = h
          BY <4>9, <5>1, <5>2
        <5>3. CASE g # h /\ k # h
          <6>1. /\ step[g] = "post" /\ step[k] = "post"
                /\ copy[g].id = copy[k].id
            BY <4>2, <4>9, <5>3
          <6> QED
            BY <6>1 DEF Records
        <5> QED
          BY <5>2, <5>3
      <4> QED
        BY <2>0, <3>1, <4>6, <4>7, <4>8, <4>9 DEF Records
    <3> QED
      BY <3>2, <3>3
  <2>7. ASSUME NEW h \in Handlers, SharePost(h) PROVE Records'
    <3>1. /\ step[h] = "post" /\ hist' = hist \cup {copy[h]}
          /\ lastID' = lastID /\ Ends(h)
      BY <2>7 DEF SharePost, Add
    <3>2. /\ step'[h] = "idle" /\ copy'[h].id = 0
          /\ \A g \in Handlers \ {h} : step'[g] = step[g] /\ copy'[g] = copy[g]
      BY <1>1, <3>1, EndsType DEF NoEvent
    <3>3. copy[h].id \notin IDs(hist) /\ copy[h].id <= lastID
      BY <3>1 DEF Records
    <3>4. Unique(hist')
      BY <3>1, <3>3 DEF Records, Unique, IDs
    <3>5. \A e \in hist' \cup batch : e.id <= lastID
      BY <3>1, <3>3 DEF Records
    <3>6. \A g \in Handlers : copy'[g].id <= lastID'
      BY <1>1, <3>1, <3>2 DEF Records
    <3>7. ASSUME NEW g \in Handlers, step'[g] = "post"
          PROVE  copy'[g].id \notin IDs(hist')
      <4>1. g # h /\ step[g] = "post" /\ copy'[g] = copy[g]
        BY <3>2, <3>7
      <4>2. copy[g].id # copy[h].id /\ copy[g].id \notin IDs(hist)
        BY <3>1, <4>1 DEF Records
      <4> QED
        BY <3>1, <4>1, <4>2 DEF IDs
    <3>8. \A g, k \in Handlers :
             step'[g] = "post" /\ step'[k] = "post" /\ copy'[g].id = copy'[k].id
                => g = k
      BY <3>2 DEF Records
    <3> QED
      BY <2>0, <3>1, <3>4, <3>5, <3>6, <3>7, <3>8 DEF Records, IDs
  <2> QED
    BY <1>3, <2>1, <2>2, <2>3, <2>5, <2>6, <2>7 DEF Serve, Next
<1>4. CASE StartTask
  BY <1>2, <1>4 DEF StartTask, vars, handling
<1>5. CASE ReadBatch
  <2>1. batch' \subseteq hist
    BY <1>1, <1>5, PageIs DEF ReadBatch
  <2> QED
    BY <1>2, <1>5, <2>1 DEF ReadBatch, vars, handling
<1>6. CASE WriteBatch
  <2>1. PICK F \in Migrated(batch) : BulkUpdate(F)
    BY <1>6 DEF WriteBatch
  <2>2. /\ hist' = {e \in hist : e.id \notin IDs(F)} \cup F
        /\ batch' = {} /\ UNCHANGED <<lastID, step, copy>> /\ SharesApart
    BY <1>6, <2>1 DEF WriteBatch, BulkUpdate, handling
  <2>3. IDs(F) = IDs(batch) /\ Unique(F)
    BY <1>1, <2>1, MigratedFact DEF Records
  <2>4. \A e \in F : e.id \in IDs(F) /\ \E f \in batch : f.id = e.id
    <3>1. \A i \in IDs(batch) : \E f \in batch : f.id = i
      BY DEF IDs
    <3>2. \A e \in F : e.id \in IDs(F)
      BY DEF IDs
    <3> QED
      BY <2>3, <3>1, <3>2
  <2>5. Unique(hist')
    BY <2>2, <2>3, <2>4 DEF Records, Unique
  <2>6. \A e \in hist' : e.id <= lastID
    BY <2>2, <2>4 DEF Records
  <2>7. IDs(hist') \subseteq IDs(hist) \cup IDs(batch)
    <3>1. \A e \in hist' : e \in hist \/ e \in F
      BY <2>2
    <3> QED
      BY <2>3, <3>1 DEF IDs
  <2>8. \A h \in Handlers : step[h] = "post" => copy[h].id \notin IDs(hist')
    BY <2>2, <2>7 DEF Records, SharesApart
  <2> QED
    BY <2>2, <2>5, <2>6, <2>8 DEF Records, Unique, IDs
<1>7. CASE CrashTask
  BY <1>2, <1>7 DEF CrashTask, vars, handling
<1> QED
  BY <1>3, <1>4, <1>5, <1>6, <1>7 DEF MigrationNext, Task

\* A response goes on where the client was: what it shows, and what the client
\* had, is all that can be seen from where the client will ask next, or from
\* where it is told that there is no more.
LEMMA ReplyGoesOn ==
  ASSUME TypeOK, Records,
         \A e \in Visible(hist) : e.id >= newest => Known(e),
         HandleEvents, untold' = untold
  PROVE  Paging'
<1> DEFINE page == GetBetween(newest)
           shown == Shown(page)
<1>1. /\ newest \in Nat /\ hist \in SUBSET Event
      /\ page = Page(hist, newest, MaxEventRange)
      /\ page \in SUBSET Event /\ shown \in SUBSET Event
      /\ page \subseteq hist
  BY PageIs, Numbers DEF TypeOK, Shown, Visible
<1>2. /\ client' = "waiting" /\ hist' = hist /\ known' = known
      /\ reply' = IF shown = {} THEN NoReply
                  ELSE [ids |-> IDs(shown), lastID |-> Min(IDs(shown)),
                        more |-> More(page)]
      /\ reached' = IF shown = {} /\ Cardinality(page) = MaxEventRange
                    THEN Min(IDs(page)) ELSE reached
  BY DEF HandleEvents
<1>3. \A e \in hist : e.id \in Nat
  BY <1>1, Numbers DEF Event
<1>4. \A e \in Visible(hist) : e \in page => e \in shown
  BY DEF Shown, Visible
<1>5. Cardinality(page) \in Nat /\ Cardinality(page) <= MaxEventRange
  <2>1. Unique(hist)
    BY DEF Records, Unique
  <2> QED
    BY <1>1, <2>1, EventsFinite, PageSize, Numbers
<1> HIDE DEF page, shown
<1>6. ASSUME NEW i \in IDs(page)
      PROVE  \A e \in hist : i <= e.id /\ e.id <= newest => e \in page
  <2>1. PICK m \in page : m.id = i
    BY DEF IDs
  <2> QED
    BY <1>1, <2>1, PageUp, Numbers
<1>7. Cardinality(page) < MaxEventRange =>
        \A e \in hist : e.id <= newest => e \in page
  BY <1>1, PageWhole, Numbers
<1> DEFINE back == IF reply'.more THEN reply'.lastID ELSE reached'
<1>8. ASSUME NEW e \in hist, e.id >= back, e.id <= newest
      PROVE  e \in page
  <2>1. CASE Cardinality(page) < MaxEventRange
    BY <1>7, <1>8, <2>1
  <2>2. CASE Cardinality(page) = MaxEventRange
    <3>1. back \in IDs(page)
      <4>1. CASE shown = {}
        <5>1. page # {}
          BY <2>2, Numbers, FS_EmptySet
        <5>2. Min(IDs(page)) \in IDs(page)
          BY <1>1, <5>1, IdType
        <5> QED
          BY <1>2, <2>2, <4>1, <5>2 DEF NoReply
      <4>2. CASE shown # {}
        <5>1. Min(IDs(shown)) \in IDs(shown)
          BY <1>1, <4>2, IdType
        <5>2. IDs(shown) \subseteq IDs(page)
          BY DEF IDs, shown, Shown, Visible
        <5>3. reply'.more /\ reply'.lastID = Min(IDs(shown))
          BY <1>2, <2>2, <4>2 DEF More, page
        <5> QED
          BY <5>1, <5>2, <5>3
      <4> QED
        BY <4>1, <4>2
    <3>2. back \in Nat /\ e.id \in Nat /\ back <= e.id
      BY <1>1, <1>3, <1>8, <3>1, IdType
    <3> QED
      BY <1>6, <1>8, <3>1, <3>2
  <2> QED
    BY <1>5, <2>1, <2>2, Numbers
<1> HIDE DEF back
<1>9. ASSUME NEW e \in Visible(hist), e.id >= back
      PROVE  Known(e) \/ e.id \in reply'.ids
  <2>1. e \in hist /\ e.id \in Nat /\ newest \in Nat
    BY <1>1, <1>3 DEF Visible
  <2>2. CASE e.id >= newest
    BY <2>2
  <2>3. CASE e.id <= newest
    <3>1. e \in shown
      BY <1>4, <1>8, <1>9, <2>1, <2>3
    <3>2. reply'.ids = IDs(shown)
      BY <1>2, <3>1
    <3> QED
      BY <3>1, <3>2 DEF IDs
  <2> QED
    BY <2>1, <2>2, <2>3
<1>10. \A e : Known(e)' <=> Known(e)
  BY <1>2 DEF Known
<1> QED
  BY <1>2, <1>9, <1>10 DEF Paging, Visible, back

\* What others do while the client is where it is: what can be seen could be
\* seen before, under its ID, or is streamed to the client, or is recorded as
\* something of which it is not told.
LEMMA OthersGoOn ==
  ASSUME Paging, UNCHANGED <<client, newest, reply, reached>>,
         \A e \in Visible(hist') :
            \/ /\ e.id \in IDs(Visible(hist))
               /\ e.id \in known \cup untold => e.id \in known' \cup untold'
            \/ e.id \in known' \cup untold'
  PROVE  Paging'
<1> DEFINE K == known \cup untold
<1>1. /\ client = "asking" =>
            \A i \in IDs(Visible(hist)) : i >= newest => i \in K
      /\ client = "waiting" =>
            \A i \in IDs(Visible(hist)) :
                i >= (IF reply.more THEN reply.lastID ELSE reached) =>
                    i \in K \/ i \in reply.ids
      /\ client = "done" =>
            \A i \in IDs(Visible(hist)) : i >= reached => i \in K
  BY DEF Paging, Known, IDs
<1>2. Visible(hist)' = Visible(hist')
  BY DEF Visible
<1> QED
  BY <1>1, <1>2 DEF Paging, Known

LEMMA PagingStep ==
  ASSUME MigrationTypeOK, Records, Paging, MigrationNext
  PROVE  Paging'
<1>1. TypeOK /\ \A e \in hist \cup batch : e.id \in Nat
  BY Numbers DEF MigrationTypeOK, TypeOK, Event
<1>2. CASE Serve /\ HandleEvents
  <2>1. \A e \in Visible(hist) : e.id >= newest => Known(e)
    BY <1>2 DEF Paging, HandleEvents
  <2> QED
    BY <1>1, <1>2, <2>1, ReplyGoesOn DEF Serve, Beside
<1>3. CASE Serve /\ TakeReply
  <2>1. /\ client = "waiting" /\ hist' = hist
        /\ known' = known \cup reply.ids /\ untold' = untold
        /\ client' = IF reply.more THEN "asking" ELSE "done"
        /\ reply.more => newest' = reply.lastID
        /\ reached' = reached
    BY <1>3 DEF Serve, Beside, TakeReply
  <2>2. \A e : Known(e) \/ e.id \in reply.ids => Known(e)'
    BY <2>1 DEF Known
  <2>3. \A e \in Visible(hist)' :
          e.id >= (IF reply.more THEN reply.lastID ELSE reached) => Known(e)'
    BY <2>1, <2>2 DEF Paging, Visible
  <2>4. CASE reply.more
    BY <2>1, <2>3, <2>4 DEF Paging
  <2>5. CASE ~ reply.more
    BY <2>1, <2>3, <2>5 DEF Paging
  <2> QED
    BY <2>4, <2>5
<1>4. ASSUME NEW e, Add(e), untold' = untold PROVE Paging'
  <2>1. /\ hist' = hist \cup {e}
        /\ known' = IF PlayerCanSeeEvent(e) THEN known \cup {e.id} ELSE known
        /\ UNCHANGED <<client, newest, reply, reached>>
    BY <1>4 DEF Add
  <2>2. \A f \in Visible(hist') :
           f.id \in IDs(Visible(hist)) \/ f.id \in known' \cup untold'
    BY <2>1 DEF Visible, IDs
  <2>3. known \cup untold \subseteq known' \cup untold'
    BY <1>4, <2>1
  <2> QED
    BY <2>1, <2>2, <2>3, OthersGoOn
<1>5. ASSUME NEW h \in Handlers, Remove(h), untold' = untold PROVE Paging'
  <2>1. /\ hist' = {e \in hist : e.id # copy[h].id}
        /\ known \ {copy[h].id} \subseteq known'
        /\ UNCHANGED <<client, newest, reply, reached>>
    BY <1>5 DEF Remove
  <2>2. \A f \in Visible(hist') :
           f.id \in IDs(Visible(hist)) /\ f.id # copy[h].id
    BY <2>1 DEF Visible, IDs
  <2> QED
    BY <1>5, <2>1, <2>2, OthersGoOn
<1>6. CASE StartTask \/ ReadBatch \/ CrashTask
  <2>1. UNCHANGED <<hist, client, newest, reply, known, reached, untold>>
    BY <1>6 DEF StartTask, ReadBatch, CrashTask, vars
  <2> QED
    BY <2>1 DEF Paging, Known, Visible
<1>7. CASE WriteBatch
  <2>0. PICK F \in Migrated(batch) : BulkUpdate(F)
    BY <1>7 DEF WriteBatch
  <2>1. /\ hist' = {e \in hist : e.id \notin IDs(F)} \cup F
        /\ untold' = untold \cup (IDs(Visible(F)) \ IDs(Visible(hist)))
        /\ UNCHANGED <<client, newest, reply, known, reached>>
    BY <1>7, <2>0 DEF WriteBatch, BulkUpdate
  <2>2. ASSUME NEW e \in Visible(hist')
        PROVE  e.id \in IDs(Visible(hist)) \/ e.id \in untold'
    <3>1. CASE e \in hist
      BY <2>2, <3>1 DEF Visible, IDs
    <3>2. CASE e \in F
      <4>1. e.id \in IDs(Visible(F))
        BY <2>2, <3>2 DEF Visible, IDs
      <4> QED
        BY <2>1, <4>1
    <3>3. e \in hist \/ e \in F
      BY <2>1, <2>2 DEF Visible
    <3> QED
      BY <3>1, <3>2, <3>3
  <2>3. known \cup untold \subseteq known' \cup untold'
    BY <2>1
  <2> QED
    BY <2>1, <2>2, <2>3, OthersGoOn
<1>8. ASSUME NEW h \in Handlers, ReadEvent(h) \/ Stop(h), untold' = untold
      PROVE  Paging'
  <2>1. UNCHANGED <<hist, client, newest, reply, known, reached>>
    BY <1>8 DEF ReadEvent, Stop
  <2> QED
    BY <1>8, <2>1 DEF Paging, Known, Visible
<1>9. CASE Serve
  <2>1. untold' = untold
    BY <1>9 DEF Serve, Beside
  <2>2. CASE PostEvent
    BY <1>4, <2>1, <2>2 DEF PostEvent
  <2>3. ASSUME NEW h \in Handlers,
               \/ ReadEvent(h) \/ DeleteEvent(h)
               \/ ShareDelete(h) \/ SharePost(h) \/ Stop(h)
        PROVE  Paging'
    <3>1. CASE ReadEvent(h) \/ Stop(h)
      BY <1>8, <2>1, <3>1
    <3>2. CASE DeleteEvent(h) \/ ShareDelete(h)
      BY <1>5, <2>1, <3>2 DEF DeleteEvent, ShareDelete
    <3>3. CASE SharePost(h)
      BY <1>4, <2>1, <3>3 DEF SharePost
    <3> QED
      BY <2>3, <3>1, <3>2, <3>3
  <2> QED
    BY <1>2, <1>3, <1>9, <2>2, <2>3 DEF Serve, Next
<1> QED
  BY <1>6, <1>7, <1>9 DEF MigrationNext, Task

\* A batch that is not full has all that is left.
LEMMA ShortBatch ==
  ASSUME TypeOK, newestID \in Nat, pending \subseteq IDs(hist),
         \A i \in pending : i <= newestID,
         Cardinality(Page(hist, newestID, BufferSize)) < BufferSize
  PROVE  pending \subseteq IDs(Page(hist, newestID, BufferSize))
<1> SUFFICES ASSUME NEW i \in pending
             PROVE  i \in IDs(Page(hist, newestID, BufferSize))
  OBVIOUS
<1>1. PICK e \in hist : e.id = i
  BY DEF IDs
<1>2. hist \in SUBSET Event
  BY DEF TypeOK
<1>3. e \in Page(hist, newestID, BufferSize)
  BY <1>1, <1>2, PageWhole, Numbers
<1> QED
  BY <1>1, <1>3 DEF IDs

LEMMA ProgressStep ==
  ASSUME MigrationTypeOK, Records, Progress, MigrationNext
  PROVE  Progress'
<1>1. /\ TypeOK /\ hist \in SUBSET Event /\ batch \in SUBSET Event
      /\ newestID \in Nat /\ IDs(hist) \in SUBSET (1 .. MaxID)
      /\ pending \subseteq IDs(hist)
  BY IdType, Numbers DEF MigrationTypeOK, TypeOK
<1>2. pending \in SUBSET Nat /\ IsFiniteSet(pending)
  <2>1. IsFiniteSet(1 .. MaxID)
    BY Numbers, FS_Interval
  <2>2. IsFiniteSet(pending)
    BY <1>1, <2>1, FS_Subset
  <2> QED
    BY <1>1, <2>2, Numbers
<1>3. CASE Serve
  <2>1. /\ pending' \subseteq pending
        /\ task' = task /\ batch' = batch /\ newestID' = newestID
    BY <1>3 DEF Serve, Beside
  <2> QED
    BY <2>1 DEF Progress, IDs
<1>4. CASE StartTask
  <2>1. \A i \in IDs(hist) : i <= lastID
    BY DEF IDs, Records
  <2> QED
    BY <1>4, <2>1 DEF StartTask, Progress
<1>5. CASE ReadBatch
  <2> DEFINE found == GetOlderThan(newestID)
  <2>1. /\ found = Page(hist, newestID, BufferSize)
        /\ found \in SUBSET Event /\ found \subseteq hist
    BY <1>1, PageIs
  <2>2. \A i \in pending : i <= newestID
    BY <1>5 DEF ReadBatch, Progress
  <2>3. /\ task' = IF LastBatch(found) THEN "done" ELSE "asking"
        /\ batch' = IF LastBatch(found) THEN {} ELSE found
        /\ pending' = IF LastBatch(found) THEN {} ELSE pending
    BY <1>5 DEF ReadBatch
  <2> HIDE DEF found
  <2>4. Cardinality(found) < BufferSize => pending \subseteq IDs(found)
    BY <1>1, <2>1, <2>2, ShortBatch
  <2>5. CASE LastBatch(found)
    BY <2>3, <2>5 DEF Progress
  <2>6. CASE ~ LastBatch(found)
    <3>1. ASSUME NEW i \in pending, i \notin IDs(found)
          PROVE  found # {} /\ \A j \in IDs(found) : i < j
      <4>1. found # {}
        BY <2>4, <3>1, FS_EmptySet, Numbers
      <4>2. ASSUME NEW j \in IDs(found), ~ (i < j) PROVE FALSE
        <5>1. PICK m \in found, e \in hist : m.id = j /\ e.id = i
          BY <1>1 DEF IDs
        <5>2. i \in Nat /\ j \in Nat
          BY <1>2, <2>1, <4>2, IdType
        <5>3. m.id <= e.id /\ e.id <= newestID
          BY <2>2, <4>2, <5>1, <5>2
        <5>4. e \in found
          BY <1>1, <2>1, <5>1, <5>3, PageUp, Numbers
        <5> QED
          BY <3>1, <5>1, <5>4 DEF IDs
      <4> QED
        BY <4>1, <4>2
    <3> QED
      BY <2>3, <2>6, <3>1 DEF Progress, IDs
  <2> QED
    BY <2>5, <2>6
<1>6. CASE WriteBatch
  <2>1. CASE batch = {}
    BY <1>6, <2>1 DEF WriteBatch, NextRound, Progress
  <2>2. CASE batch # {}
    <3>1. /\ task' = "reading" /\ newestID' = Min(IDs(batch))
          /\ pending' = pending \ IDs(batch) /\ task = "asking"
      BY <1>6, <2>2 DEF WriteBatch, NextRound, NextNewest
    <3>2. Min(IDs(batch)) \in IDs(batch) /\ IDs(batch) \in SUBSET Nat
      BY <1>1, <2>2, IdType
    <3>3. \A i \in pending' : i < Min(IDs(batch)) /\ i \in Nat
      BY <1>2, <3>1, <3>2 DEF Progress
    <3>4. \A i \in pending' : i <= newestID'
      BY <3>1, <3>2, <3>3
    <3> QED
      BY <3>1, <3>4 DEF Progress
  <2> QED
    BY <2>1, <2>2
<1>7. CASE CrashTask
  BY <1>7 DEF CrashTask, Progress
<1> QED
  BY <1>3, <1>4, <1>5, <1>6, <1>7 DEF MigrationNext, Task
-----------------------------------------------------------------------------
LEMMA Always ==
  MigrationSpec => [](MigrationTypeOK /\ MigrationInv)
<1>1. MigrationTypeOK /\ MigrationInv /\ [MigrationNext]_allVars
        => MigrationTypeOK' /\ MigrationInv'
  <2> SUFFICES ASSUME MigrationTypeOK, MigrationInv, [MigrationNext]_allVars
               PROVE  MigrationTypeOK' /\ MigrationInv'
    OBVIOUS
  <2>1. CASE MigrationNext
    BY <2>1, StepType, RecordsStep, PagingStep, ProgressStep DEF MigrationInv
  <2>2. CASE UNCHANGED allVars
    BY <2>2 DEF allVars, vars, handling, MigrationTypeOK, TypeOK, MigrationInv,
                Records, Paging, Progress, Known, Visible, IDs, Unique
  <2> QED
    BY <2>1, <2>2
<1> QED
  BY <1>1, InitTypes, PTL DEF MigrationSpec

\* Every page and batch is well formed, and a batch has as many events as the
\* buffer at most, whatever is posted, deleted and written back meanwhile.
THEOREM MigrationTypeCorrect == MigrationSpec => []MigrationTypeOK
  BY Always, PTL

\* Pages as long as the server sends them, posts, deletions and shares between
\* two of them, and a task that writes events back and gives them to other
\* players do not make a client that is told there is no more miss an event its
\* player can see (routes/game.go:338), but for those that the task has shown him
\* and those behind a full page of events he cannot see. It is assumed, with
\* WriteBatch, that no share has one transaction before and one after that which
\* writes its event.
THEOREM PagingIsComplete == MigrationSpec => []CompleteBesidesUntold
<1>1. MigrationInv => CompleteBesidesUntold
  BY DEF MigrationInv, Paging, Known, CompleteBesidesUntold
<1> QED
  BY <1>1, Always, PTL

\* When a task finds its last batch (task/eventTask.go:24) it has written every
\* event that was there when it started and still is, but for the oldest of the
\* history, wherever the batches begin and end and whatever others do between
\* them.
THEOREM TaskLeavesOldest == MigrationSpec => AllButOldest
<1> DEFINE A == task = "reading" /\ task' = "done"
                  => pending \subseteq {Min(IDs(hist))}
<1>1. MigrationTypeOK /\ MigrationInv /\ [MigrationNext]_allVars => [A]_allVars
  <2> SUFFICES ASSUME MigrationTypeOK, MigrationInv, MigrationNext,
                      task = "reading", task' = "done"
               PROVE  pending \subseteq {Min(IDs(hist))}
    OBVIOUS
  <2> DEFINE found == GetOlderThan(newestID)
  <2>1. /\ TypeOK /\ hist \in SUBSET Event /\ newestID \in Nat
        /\ pending \subseteq IDs(hist) /\ \A i \in pending : i <= newestID
    BY Numbers DEF MigrationTypeOK, TypeOK, MigrationInv, Progress
  <2>2. ReadBatch
    BY DEF MigrationNext, Serve, Beside, StartTask, Task, WriteBatch, NextRound,
           CrashTask
  <2>3. Cardinality(found) = 1
    BY <2>2 DEF ReadBatch, LastBatch
  <2>4. /\ found = Page(hist, newestID, BufferSize)
        /\ found \in SUBSET Event /\ found \subseteq hist
    BY <2>1, PageIs
  <2>5. \A e \in found : e.id <= newestID
    BY DEF GetOlderThan
  <2> HIDE DEF found
  <2>6. IsFiniteSet(found)
    BY <2>4, EventsFinite
  <2>7. PICK e : found = {e}
    BY <2>3, <2>6, FS_Singleton
  <2>8. pending \subseteq {e.id}
    <3>1. pending \subseteq IDs(found)
      BY <2>1, <2>3, <2>4, ShortBatch, Numbers
    <3> QED
      BY <2>7, <3>1 DEF IDs
  <2>9. e \in hist /\ e.id \in Nat /\ e.id <= newestID
    BY <2>1, <2>4, <2>5, <2>7, Numbers DEF Event
  <2>10. \A f \in hist : e.id <= f.id
    <3> SUFFICES ASSUME NEW f \in hist, ~ (e.id <= f.id) PROVE FALSE
      OBVIOUS
    <3>1. f.id \in Nat /\ f.id <= newestID
      BY <2>1, <2>9, Numbers DEF Event
    <3>2. f \in found
      BY <2>1, <2>3, <2>4, <3>1, PageWhole, Numbers
    <3> QED
      BY <2>7, <2>9, <3>2
  <2>11. PICK m : m = Min(IDs(hist))
    OBVIOUS
  <2>12. m \in IDs(hist) /\ m \in Nat /\ \A i \in IDs(hist) : m <= i
    BY <2>1, <2>9, <2>11, IdType
  <2>13. m = e.id
    <3>1. m <= e.id
      BY <2>9, <2>12 DEF IDs
    <3>2. e.id <= m
      BY <2>10, <2>12 DEF IDs
    <3> QED
      BY <2>9, <2>12, <3>1, <3>2
  <2> QED
    BY <2>8, <2>11, <2>13
<1> QED
  BY <1>1, Always, PTL DEF MigrationSpec, AllButOldest
-----------------------------------------------------------------------------
(* Progress: what MigrationEnds and BackfillEnds, which are liveness, rest   *)
(* on. An ID is a natural number: what goes back with each step comes to an  *)
(* end.                                                                      *)

\* What was read of a round lies no further up than where it starts, and it is
\* never the last event alone.
Older ==
    task = "asking" =>
        Cardinality(batch) # 1 /\ \A e \in batch : e.id <= newestID

LEMMA AlwaysOlder == MigrationSpec => []Older
<1>1. MigrationInit => Older
  BY DEF MigrationInit, Older
<1>2. MigrationTypeOK /\ Older /\ [MigrationNext]_allVars => Older'
  <2> SUFFICES ASSUME MigrationTypeOK, Older, [MigrationNext]_allVars
               PROVE  Older'
    OBVIOUS
  <2>1. CASE Serve
    BY <2>1 DEF Serve, Beside, Older
  <2>2. CASE StartTask
    BY <2>2 DEF StartTask, Older
  <2>3. CASE ReadBatch
    <3>1. TypeOK /\ newestID \in Nat
      BY Numbers DEF MigrationTypeOK
    <3>2. \A e \in GetOlderThan(newestID) : e.id <= newestID
      BY DEF GetOlderThan
    <3> QED
      BY <2>3, <3>2 DEF ReadBatch, LastBatch, Older
  <2>4. CASE WriteBatch
    BY <2>4 DEF WriteBatch, NextRound, Older
  <2>5. CASE CrashTask
    BY <2>5 DEF CrashTask, Older
  <2>6. CASE UNCHANGED allVars
    BY <2>6 DEF allVars, Older
  <2> QED
    BY <2>1, <2>2, <2>3, <2>4, <2>5, <2>6 DEF MigrationNext, Task
<1> QED
  BY <1>1, <1>2, Always, PTL DEF MigrationSpec

\* Of two events and more, one is older than where the batch started.
LEMMA RoundGoesBack ==
  ASSUME MigrationTypeOK, Records, Older, task = "asking", batch # {}
  PROVE  NextNewest(batch) < newestID
<1>1. /\ batch \in SUBSET Event /\ newestID \in Nat
      /\ IsFiniteSet(batch) /\ Cardinality(batch) # 1
      /\ \A e \in batch : e.id \in Nat /\ e.id <= newestID
  BY EventsFinite, Numbers DEF MigrationTypeOK, Older, Event
<1>2. PICK e \in batch : TRUE
  OBVIOUS
<1>3. PICK f \in batch : f # e
  <2> SUFFICES ASSUME \A f \in batch : f = e PROVE FALSE
    OBVIOUS
  <2>1. batch = {e}
    BY <1>2
  <2> QED
    BY <1>1, <2>1, FS_Singleton
<1>4. e.id # f.id
  BY <1>2, <1>3 DEF Records, Unique
<1>5. e.id \in IDs(batch) /\ f.id \in IDs(batch)
  BY <1>2, <1>3 DEF IDs
<1>6. PICK m : m = Min(IDs(batch))
  OBVIOUS
<1>7. m \in Nat /\ m <= e.id /\ m <= f.id
  BY <1>1, <1>5, <1>6, IdType
<1>8. m < newestID
  BY <1>1, <1>2, <1>3, <1>4, <1>7
<1> QED
  BY <1>6, <1>8 DEF NextNewest

\* While it runs the task never goes forward, and a round that is over has got
\* it back, past the posts, deletions and untold events of others: it reads
\* no batch twice and ends after as many as there are IDs (eventTask.go:44).
THEOREM BatchesGoBack ==
  MigrationSpec =>
      [][/\ {task, task'} \subseteq {"reading", "asking"} =>
                newestID' <= newestID
         /\ task = "asking" /\ task' = "reading" =>
                newestID' < newestID]_allVars
<1> DEFINE A == /\ {task, task'} \subseteq {"reading", "asking"} =>
                      newestID' <= newestID
                /\ task = "asking" /\ task' = "reading" =>
                      newestID' < newestID
<1>1. MigrationTypeOK /\ MigrationInv /\ Older /\ [MigrationNext]_allVars
        => [A]_allVars
  <2> SUFFICES ASSUME MigrationTypeOK, Records, Older, MigrationNext
               PROVE  A
    BY DEF MigrationInv
  <2>1. newestID \in Nat
    BY Numbers DEF MigrationTypeOK
  <2>2. CASE Serve
    BY <2>1, <2>2 DEF Serve, Beside
  <2>3. CASE StartTask
    BY <2>3 DEF StartTask
  <2>4. CASE ReadBatch
    BY <2>1, <2>4 DEF ReadBatch
  <2>5. CASE WriteBatch
    <3>1. task = "asking" /\ NextRound
      BY <2>5 DEF WriteBatch
    <3>2. CASE batch = {}
      BY <3>1, <3>2 DEF NextRound
    <3>3. CASE batch # {}
      <4>1. newestID' = NextNewest(batch) /\ newestID' < newestID
        BY <3>1, <3>3, RoundGoesBack DEF NextRound
      <4>2. newestID' \in Nat
        <5>1. batch \in SUBSET Event
          BY DEF MigrationTypeOK
        <5> QED
          BY <3>3, <4>1, <5>1, IdType DEF NextNewest
      <4> QED
        BY <2>1, <4>1, <4>2
    <3> QED
      BY <3>2, <3>3
  <2>6. CASE CrashTask
    BY <2>6 DEF CrashTask
  <2> QED
    BY <2>2, <2>3, <2>4, <2>5, <2>6 DEF MigrationNext, Task
<1> QED
  BY <1>1, Always, AlwaysOlder, PTL DEF MigrationSpec

\* A page that says there is more gets the client further back, but for one that
\* shows the event he asked from and nothing else (routes/game.go:377).
THEOREM PagesGoBack ==
  MigrationSpec =>
      [][client = "asking" /\ client' = "waiting" /\ reply'.more =>
            reply'.lastID < newest \/ Stalled']_allVars
<1> DEFINE A == client = "asking" /\ client' = "waiting" /\ reply'.more =>
                    reply'.lastID < newest \/ Stalled'
<1>1. MigrationTypeOK /\ MigrationInv /\ [MigrationNext]_allVars
        => [A]_allVars
  <2> SUFFICES ASSUME MigrationTypeOK, Records, MigrationNext,
                      client = "asking", client' = "waiting", reply'.more
               PROVE  reply'.lastID < newest \/ Stalled'
    BY DEF MigrationInv
  <2>1. HandleEvents
    BY DEF MigrationNext, Serve, Next, TakeReply, PostEvent, Add, ReadEvent,
           DeleteEvent, ShareDelete, Remove, SharePost, Stop,
           StartTask, Task, ReadBatch, WriteBatch, CrashTask, vars
  <2>2. TypeOK /\ newest \in Nat /\ hist \in SUBSET Event
    BY Numbers DEF MigrationTypeOK, TypeOK
  <2> DEFINE page == GetBetween(newest)
  <2>3. /\ page \in SUBSET Event /\ page \subseteq hist
        /\ \A e \in page : e.id \in Nat /\ e.id <= newest
    <3>1. page \in SUBSET Event /\ page \subseteq hist
      BY <2>2, PageIs
    <3> QED
      BY <3>1, Numbers DEF GetBetween, Event
  <2>4. /\ Shown(page) # {} /\ Cardinality(page) = MaxEventRange
        /\ reply'.lastID = Min(IDs(Shown(page)))
        /\ hist' = hist /\ newest' = newest
    BY <2>1 DEF HandleEvents, NoReply, More
  <2> HIDE DEF page
  <2>5. PICK m : m = Min(IDs(Shown(page)))
    OBVIOUS
  <2>6. /\ m \in Nat
        /\ \E e \in page : e.id = m
        /\ \A e \in page : PlayerCanSeeEvent(e) => m <= e.id
    <3>1. Shown(page) \in SUBSET Event
      BY <2>3 DEF Shown, Visible
    <3>2. /\ m \in IDs(Shown(page)) /\ m \in Nat
          /\ \A i \in IDs(Shown(page)) : m <= i
      BY <2>4, <2>5, <3>1, IdType
    <3> QED
      BY <3>2 DEF Shown, Visible, IDs
  <2>7. CASE m < newest
    BY <2>4, <2>5, <2>7
  <2>8. CASE ~ (m < newest)
    <3>1. m = newest
      BY <2>2, <2>3, <2>6, <2>8
    <3>2. PICK e \in page : e.id = m
      BY <2>6
    <3>3. PICK f \in page : f # e
      <4> SUFFICES ASSUME \A f \in page : f = e PROVE FALSE
        OBVIOUS
      <4>1. page = {e}
        BY <3>2
      <4> QED
        BY <2>4, <4>1, FS_Singleton, Numbers
    <3>4. f.id # e.id /\ f \in hist
      BY <2>3, <3>2, <3>3 DEF Records, Unique
    <3>5. f.id < newest
      BY <2>2, <2>3, <3>1, <3>2, <3>3, <3>4
    <3>6. ~ PlayerCanSeeEvent(f)
      BY <2>2, <2>3, <2>6, <3>1, <3>3, <3>5
    <3> QED
      BY <2>4, <2>5, <3>1, <3>4, <3>5, <3>6 DEF Stalled
  <2> QED
    BY <2>7, <2>8
<1> QED
  BY <1>1, Always, PTL DEF MigrationSpec
===============================================================================
