-------------------------------- MODULE Dice --------------------------------
(***************************************************************************)
(* The dice (roll.go): one goroutine turns random bytes into dice and      *)
(* fills a buffered channel, from which the handlers of rolls take them    *)
(* one by one, however many roll at the same time.                         *)
(***************************************************************************)
EXTENDS Naturals, Sequences, FiniteSets

CONSTANTS
    RollBufferSize,
    MaxSingleRoll,  \* the largest roll a request may ask for
    Handlers,       \* the handlers that may roll at a time
    Bytes,          \* the bytes that the random numbers generator yields
    MaxSixes        \* bound: the dice that show a six

MaxUint8 == 255
rollMax == 6

ASSUME DiceAssumption ==
    /\ RollBufferSize \in Nat \ {0} /\ MaxSingleRoll \in Nat \ {0}
    /\ Bytes \subseteq 0 .. MaxUint8
    /\ MaxSixes \in Nat

inputByteMax == MaxUint8 - ((MaxUint8 % rollMax) + 1)

Die(b) == (b % rollMax) + 1

Faces == 1 .. 6

\* "It is sound": as many bytes are made into each face as into any other, and
\* no more could be used evenly.
Even ==
    LET Of(f) == {b \in 0 .. inputByteMax : Die(b) = f} IN
    /\ \A f, g \in Faces : Cardinality(Of(f)) = Cardinality(Of(g))
    /\ MaxUint8 - inputByteMax < Cardinality(Faces)

\* Which dice of a roll are in S.
Among(dice, S) == {i \in DOMAIN dice : dice[i] \in S}

VARIABLES
    unread,     \* the bytes of the goroutine that it has not looked at yet
    rollsChan,
    roll,       \* roll[h]: what handler h is rolling
    sixes       \* the sixes thrown so far

diceVars == <<unread, rollsChan, roll, sixes>>

\* A handler: what it rolls, the dice it was given to reroll, the dice it has
\* to take in this round, the round, the last two rounds before it, and the
\* tally of hits or sixes.
Roll ==
    [kind : {"none", "fill", "explode", "reroll"}, original : Seq(Faces),
     pool : Nat, round : Seq(Faces), rounds : Seq(Seq(Faces)), tally : Nat]

NoRoll ==
    [kind |-> "none", original |-> <<>>, pool |-> 0, round |-> <<>>,
     rounds |-> <<>>, tally |-> 0]

Rolling(h) == roll[h].pool > 0
-----------------------------------------------------------------------------
(* The goroutine of GenerateRolls. *)

\* Variant: more is read before everything was looked at.
ReadBytes_Early ==
    /\ unread' = unread + RollBufferSize
    /\ UNCHANGED <<rollsChan, roll, sixes>>

\* crypto.Read fills the whole array. If it fails it is tried again later.
ReadBytes ==
    /\ unread = 0
    /\ unread' = RollBufferSize
    /\ UNCHANGED <<rollsChan, roll, sixes>>

\* A byte that becomes a die is sent when there is room.
SendDie ==
    \E b \in Bytes :
        /\ unread > 0 /\ Len(rollsChan) < RollBufferSize
        /\ b <= inputByteMax
        /\ Die(b) = 6 => sixes < MaxSixes
        /\ rollsChan' = Append(rollsChan, Die(b))
        /\ sixes' = IF Die(b) = 6 THEN sixes + 1 ELSE sixes
        /\ unread' = unread - 1
        /\ UNCHANGED roll

SkipByte ==
    /\ unread > 0
    /\ \E b \in Bytes : b > inputByteMax
    /\ unread' = unread - 1
    /\ UNCHANGED <<rollsChan, roll, sixes>>
-----------------------------------------------------------------------------
(* The handlers. *)

\* Variant: a five is rolled again.
Misses_Fives(dice) == Among(dice, 1 .. 5)

\* The dice that RerollFailures rolls again.
Misses(dice) == Among(dice, 1 .. 4)

\* handleRoll and handleRollInitiative ask for dice within their limits,
\* handleReroll for the misses of an earlier roll; it ends if there are none.
Ask(h) ==
    /\ roll[h] = NoRoll
    /\ \/ \E n \in 1 .. MaxSingleRoll, k \in {"fill", "explode"} :
             roll' = [roll EXCEPT ![h].kind = k, ![h].pool = n]
       \/ \E n \in 1 .. MaxSingleRoll : \E dice \in [1 .. n -> {1, 5, 6}] :
             /\ Misses(dice) # {}
             /\ roll' = [roll EXCEPT ![h].kind = "reroll", ![h].original = dice,
                                     ![h].pool = Cardinality(Misses(dice))]
    /\ UNCHANGED <<unread, rollsChan, sixes>>

\* Which dice are counted: hits by FillRolls, sixes by ExplodingSixes.
Counted(kind) == IF kind = "explode" THEN {6} ELSE {5, 6}

\* Variant: the pool is left as it was.
NextPool_Kept(h, tally) == IF roll[h].kind = "explode" THEN roll[h].pool ELSE 0

\* ExplodingSixes rolls the sixes of a round in the next.
NextPool(h, tally) == IF roll[h].kind = "explode" THEN tally ELSE 0

\* The last two rounds.
Kept(rounds, round) ==
    Append(IF Len(rounds) = 2 THEN Tail(rounds) ELSE rounds, round)

\* A die is taken; the last one of a round ends it.
Take(h) ==
    LET die == Head(rollsChan)
        round == Append(roll[h].round, die)
        tally == roll[h].tally + (IF die \in Counted(roll[h].kind) THEN 1 ELSE 0)
    IN
    /\ Rolling(h) /\ rollsChan # <<>>
    /\ rollsChan' = Tail(rollsChan)
    /\ roll' = [roll EXCEPT ![h] =
          IF Len(round) < roll[h].pool
          THEN [roll[h] EXCEPT !.round = round, !.tally = tally]
          ELSE [roll[h] EXCEPT
                  !.round = <<>>,
                  !.rounds = Kept(roll[h].rounds, round),
                  !.pool = NextPool(h, tally),
                  !.tally = IF NextPool(h, tally) > 0 THEN 0 ELSE tally]]
    /\ UNCHANGED <<unread, sixes>>

\* The handler makes an event of its dice.
Use(h) ==
    /\ roll[h] # NoRoll /\ ~ Rolling(h)
    /\ roll' = [roll EXCEPT ![h] = NoRoll]
    /\ UNCHANGED <<unread, rollsChan, sixes>>

DiceInit ==
    /\ unread = 0
    /\ rollsChan = <<>>
    /\ roll = [h \in Handlers |-> NoRoll]
    /\ sixes = 0

DiceNext ==
    \/ ReadBytes \/ SendDie \/ SkipByte
    \/ \E h \in Handlers : Ask(h) \/ Take(h) \/ Use(h)

DiceSpec == DiceInit /\ [][DiceNext]_diceVars

\* The generator does not fail for ever, nor yield only bytes that are skipped;
\* whoever waits to receive from a channel is served in turn.
FairDiceSpec ==
    /\ DiceSpec
    /\ WF_diceVars(ReadBytes) /\ SF_diceVars(SendDie)
    /\ \A h \in Handlers : SF_diceVars(Take(h))
-----------------------------------------------------------------------------
DiceTypeOK ==
    /\ unread \in 0 .. RollBufferSize
    /\ rollsChan \in Seq(Faces) /\ Len(rollsChan) <= RollBufferSize
    /\ roll \in [Handlers -> Roll]
    /\ sixes \in 0 .. MaxSixes

\* Each round has as many dice as the one before had sixes, and the next will
\* have as many as the last had.
RuleOfSix(rounds, pool) ==
    /\ Cardinality(Among(rounds[Len(rounds)], {6})) = pool
    /\ Len(rounds) = 2 =>
          Cardinality(Among(rounds[1], {6})) = Len(rounds[2])

\* A reroll has a die for each of the first roll that was no hit.
Rerolls(dice, original) ==
    Len(dice) + Cardinality(Among(original, {5, 6})) = Len(original)

\* "ExplodingSixes rolls a pool applying the Rule of Six", "FillRolls ...
\* returns the number of hits obtained", "RerollFailures re-rolls misses in a
\* roll": so they do, whatever other handlers take from the channel meanwhile.
RulesKept ==
    \A h \in Handlers :
        LET rounds == roll[h].rounds IN
        /\ roll[h].kind = "explode" /\ rounds # <<>> =>
              RuleOfSix(rounds, roll[h].pool)
        /\ roll[h].kind \in {"fill", "reroll"} /\ ~ Rolling(h) =>
              /\ Len(rounds) = 1
              /\ roll[h].tally = Cardinality(Among(rounds[1], {5, 6}))
              /\ roll[h].kind = "reroll" =>
                    Rerolls(rounds[1], roll[h].original)

\* Every roll gets its dice, whoever else rolls.
RollsEnd == \A h \in Handlers : Rolling(h) ~> ~ Rolling(h)
=============================================================================
