----------------------------- MODULE SeedsProofs -----------------------------
(***************************************************************************)
(* The properties of Seeds, for every environment, error rate, time at     *)
(* which the server starts, and number of children.                        *)
(***************************************************************************)
EXTENDS Seeds, TLAPS

-----------------------------------------------------------------------------
(***************************************************************************)
(* The inductive invariant.                                                *)
(***************************************************************************)
ClockOK == clock \in 0 .. MaxTime /\ \E t \in StartTimes : t <= clock

\* What is set starts with a number.
DataOK ==
  /\ DOMAIN data = Keys
  /\ \A key \in Keys : data[key].isSet => data[key].list[1] \in Int

\* A process that has come past sendErr_init counts its seeds from a time.
CountsFromTime(p) == p.stage # "START" => \E t \in StartTimes : p.nextSeed >= t

\* A process uses what the environment gives.
Obeys(p) ==
  /\ data["SEEDRAND"].isSet => p.seed = data["SEEDRAND"].list[1]
  /\ data["ERR_RATE"].isSet => p.rate = data["ERR_RATE"].list[1]
  /\ data["DEBUG"].isSet => p.debug = data["DEBUG"].list[1]

\* Past sendErr_init, its own error rate and debug level where the environment
\* is silent.
UsesOwn(p) ==
  p.stage # "START" =>
    /\ ~data["ERR_RATE"].isSet => p.rate = Rate
    /\ ~data["DEBUG"].isSet => p.debug = DEBUG_ON

ProcessOK(p) == p \in Libraries /\ CountsFromTime(p) /\ Obeys(p) /\ UsesOwn(p)

\* Its own sendErr_init took the seed at a time up to c.
SeededBy(p, c) ==
  p.stage \in {"SERVE", "EXITED"} /\ ~data["SEEDRAND"].isSet =>
    \E t \in StartTimes : t <= p.seed /\ p.seed <= c

TimesOK ==
  /\ SeededBy(main, clock)
  /\ \A k \in 1 .. Len(children) : SeededBy(children[k], clock)

ChildrenOK ==
  /\ children \in Seq(Libraries)
  /\ Len(children) <= MaxChildren
  /\ \A k \in 1 .. Len(children) : ProcessOK(children[k])
  /\ main.stage = "START" => children = <<>>

\* The seeds that have been given are below the next one.
SeedsBelow ==
  ~data["SEEDRAND"].isSet =>
    /\ \A i \in 1 .. Len(children) :
         children[i].stage = "FORKED" => children[i].seed < main.nextSeed
    /\ \A i, j \in 1 .. Len(children) :
         i # j /\ children[i].stage = "FORKED" /\ children[j].stage = "FORKED"
           => children[i].seed # children[j].seed

SeedsInv ==
  ClockOK /\ DataOK /\ ProcessOK(main) /\ ChildrenOK /\ SeedsBelow /\ TimesOK

-----------------------------------------------------------------------------
\* A process as a record, and its parts.
LEMMA LibraryFields ==
  ASSUME NEW p \in Libraries
  PROVE  /\ p = [stage |-> p.stage, nextSeed |-> p.nextSeed, seed |-> p.seed,
                 rate |-> p.rate, debug |-> p.debug]
         /\ p.stage \in {"START", "FORKED", "SERVE", "EXITED"}
         /\ p.nextSeed \in Nat /\ p.seed \in Int /\ p.rate \in Int /\ p.debug \in Int
BY DEF Libraries

\* A time that has been is not undone.
LEMMA StillSeeded ==
  ASSUME ClockOK, NEW p \in Libraries, SeededBy(p, clock),
         NEW c \in Nat, clock <= c
  PROVE  SeededBy(p, c)
<1>1. clock \in Nat /\ p.seed \in Int /\ StartTimes \subseteq Nat
  BY SeedsAssumption, LibraryFields DEF ClockOK
<1> QED
  BY <1>1 DEF SeededBy

\* Setting the seed obeys the environment.
LEMMA SeedRand ==
  ASSUME NEW p \in Libraries, NEW s \in Int
  PROVE  LET q == setUserMode_SeedRand(p, s)
         IN  /\ q \in Libraries
             /\ q.stage = p.stage /\ q.nextSeed = p.nextSeed
             /\ q.rate = p.rate /\ q.debug = p.debug
             /\ Obeys(p) => Obeys(q)
             /\ ~data["SEEDRAND"].isSet => q.seed = s
<1>1. CASE data["SEEDRAND"].isSet
  BY <1>1 DEF setUserMode_SeedRand
<1>2. CASE ~data["SEEDRAND"].isSet
  <2> DEFINE q == [p EXCEPT !.seed = s]
  <2>1. /\ q \in Libraries /\ q.stage = p.stage /\ q.nextSeed = p.nextSeed
        /\ q.seed = s /\ q.rate = p.rate /\ q.debug = p.debug
    BY DEF Libraries
  <2>2. setUserMode_SeedRand(p, s) = q
    BY <1>2 DEF setUserMode_SeedRand, setRandSeed
  <2> HIDE DEF q
  <2> QED
    BY <1>2, <2>1, <2>2 DEF Obeys
<1> QED
  BY <1>1, <1>2

\* sendErr_init obeys the environment, applies the program's own values where
\* that is silent, and takes the time as the next seed.
LEMMA SendErrInit ==
  ASSUME ClockOK, NEW p \in Libraries, Obeys(p), NEW lib \in sendErr_init(p)
  PROVE  /\ lib \in Libraries /\ Obeys(lib)
         /\ lib.stage = p.stage
         /\ lib.nextSeed \in clock .. (clock + 1)
         /\ ~data["ERR_RATE"].isSet => lib.rate = Rate
         /\ ~data["DEBUG"].isSet => lib.debug = DEBUG_ON
         /\ ~data["SEEDRAND"].isSet => lib.seed = clock
<1> DEFINE rated == setUserMode_ErrRate(p, Rate)
           seeded == setUserMode_SeedRand(rated, clock)
           debugged == setUserMode_Debug(seeded, DEBUG_ON)
<1>1. clock \in Nat
  BY SeedsAssumption DEF ClockOK
<1>2. /\ rated \in Libraries /\ Obeys(rated) /\ rated.stage = p.stage
      /\ ~data["ERR_RATE"].isSet => rated.rate = Rate
  <2>1. CASE data["ERR_RATE"].isSet
    BY <2>1 DEF setUserMode_ErrRate
  <2>2. CASE ~data["ERR_RATE"].isSet
    <3> DEFINE q == [p EXCEPT !.rate = Rate]
    <3>1. /\ q \in Libraries /\ q.stage = p.stage
          /\ q.seed = p.seed /\ q.debug = p.debug /\ q.rate = Rate
      BY SeedsAssumption DEF Libraries
    <3>2. rated = q
      BY <2>2 DEF setUserMode_ErrRate, setErrorRate
    <3> HIDE DEF q
    <3> QED
      BY <2>2, <3>1, <3>2 DEF Obeys
  <2> QED
    BY <2>1, <2>2
<1> HIDE DEF rated
<1>3. /\ seeded \in Libraries /\ Obeys(seeded) /\ seeded.stage = p.stage
      /\ ~data["ERR_RATE"].isSet => seeded.rate = Rate
      /\ ~data["SEEDRAND"].isSet => seeded.seed = clock
  BY <1>1, <1>2, SeedRand
<1> HIDE DEF seeded
<1>4. /\ debugged \in Libraries /\ Obeys(debugged) /\ debugged.stage = p.stage
      /\ ~data["ERR_RATE"].isSet => debugged.rate = Rate
      /\ ~data["SEEDRAND"].isSet => debugged.seed = clock
      /\ ~data["DEBUG"].isSet => debugged.debug = DEBUG_ON
  <2>1. CASE data["DEBUG"].isSet
    BY <1>3, <2>1 DEF setUserMode_Debug
  <2>2. CASE ~data["DEBUG"].isSet
    <3> DEFINE q == [seeded EXCEPT !.debug = DEBUG_ON]
    <3>1. /\ q \in Libraries /\ q.stage = seeded.stage
          /\ q.seed = seeded.seed /\ q.rate = seeded.rate /\ q.debug = DEBUG_ON
      BY <1>3 DEF Libraries, DEBUG_ON
    <3>2. debugged = q
      BY <2>2 DEF setUserMode_Debug, dbg_setlevel
    <3> HIDE DEF q
    <3> QED
      BY <1>3, <2>2, <3>1, <3>2 DEF Obeys
  <2> QED
    BY <2>1, <2>2
<1>5. PICK now \in clock .. (clock + 1) : lib = [debugged EXCEPT !.nextSeed = now]
  BY DEF sendErr_init, rated, seeded
<1> HIDE DEF debugged
<1>6. now \in Nat
  BY <1>1
<1>7. /\ lib \in Libraries /\ lib.stage = debugged.stage /\ lib.nextSeed = now
      /\ lib.seed = debugged.seed /\ lib.rate = debugged.rate /\ lib.debug = debugged.debug
  BY <1>4, <1>5, <1>6 DEF Libraries
<1> QED
  BY <1>4, <1>7 DEF Obeys

\* And when it is done, so is the process.
LEMMA Served ==
  ASSUME SeedsInv, NEW p \in Libraries, Obeys(p), NEW lib \in sendErr_init(p),
         clock' = IF lib.nextSeed > clock THEN lib.nextSeed ELSE clock,
         clock' <= MaxTime
  PROVE  /\ ProcessOK([lib EXCEPT !.stage = "SERVE"])
         /\ SeededBy([lib EXCEPT !.stage = "SERVE"], clock)
         /\ ClockOK' /\ clock' \in Nat /\ clock <= clock'
<1>1. /\ lib \in Libraries /\ Obeys(lib)
      /\ lib.nextSeed \in clock .. (clock + 1)
      /\ ~data["ERR_RATE"].isSet => lib.rate = Rate
      /\ ~data["DEBUG"].isSet => lib.debug = DEBUG_ON
      /\ ~data["SEEDRAND"].isSet => lib.seed = clock
  BY SendErrInit DEF SeedsInv
<1>2. PICK t \in StartTimes : t <= clock /\ t \in Nat
  BY SeedsAssumption DEF SeedsInv, ClockOK
<1>3. clock \in Nat
  BY SeedsAssumption DEF SeedsInv, ClockOK
<1> DEFINE q == [lib EXCEPT !.stage = "SERVE"]
<1>4. /\ q \in Libraries /\ q.stage = "SERVE" /\ q.nextSeed = lib.nextSeed
      /\ q.seed = lib.seed /\ q.rate = lib.rate /\ q.debug = lib.debug
  BY <1>1 DEF Libraries
<1> HIDE DEF q
<1>5. q.nextSeed >= t
  BY <1>1, <1>2, <1>3, <1>4
<1>6. ProcessOK(q)
  BY <1>1, <1>4, <1>5 DEF ProcessOK, CountsFromTime, Obeys, UsesOwn
<1>7. ClockOK' /\ clock' \in Nat /\ clock <= clock'
  BY <1>1, <1>2, <1>3, SeedsAssumption DEF ClockOK
<1>8. SeededBy(q, clock)
  BY <1>1, <1>2, <1>3, <1>4 DEF SeededBy
<1> QED
  BY <1>6, <1>7, <1>8 DEF q

-----------------------------------------------------------------------------
LEMMA InitSeedsInv == Init => SeedsInv
<1> SUFFICES ASSUME Init PROVE SeedsInv
  OBVIOUS
<1>1. ClockOK
  BY SeedsAssumption DEF Init, ClockOK
<1>2. DataOK
  <2>1. PICK e \in Env : data = [key \in Keys |-> loadEnvData_Number(e[key])]
    BY DEF Init
  <2>2. ASSUME NEW key \in Keys, data[key].isSet PROVE data[key].list[1] \in Int
    <3> DEFINE Token == [isNumber : BOOLEAN, n : int]
    <3>1. e[key] \in [exists : BOOLEAN, tokens : Seq(Token)]
      BY SeedsAssumption
    <3>2. e[key].tokens \in Seq(Token)
      BY <3>1
    <3>3. data[key] = loadEnvData_Number(e[key])
      BY <2>1
    <3> HIDE DEF Token
    <3>4. /\ e[key].tokens # <<>>
          /\ data[key].list = <<Head(e[key].tokens).n>>
      BY <2>2, <3>3 DEF loadEnvData_Number, NotSet
    <3>5. Head(e[key].tokens) \in Token
      BY <3>2, <3>4
    <3>6. Head(e[key].tokens).n \in Int
      BY <3>5 DEF Token, int
    <3> QED
      BY <3>4, <3>6
  <2> QED
    BY <2>1, <2>2 DEF DataOK
<1>3. /\ main = [stage |-> "START", nextSeed |-> 10,
                 seed  |-> FromEnv("SEEDRAND", clock),
                 rate  |-> FromEnv("ERR_RATE", 0),
                 debug |-> FromEnv("DEBUG", 0)]
      /\ children = <<>>
  BY DEF Init
<1>4. ProcessOK(main)
  <2>1. clock \in Int /\ {"SEEDRAND", "ERR_RATE", "DEBUG"} \subseteq Keys
    BY <1>1, SeedsAssumption DEF ClockOK, Keys
  <2>2. /\ FromEnv("SEEDRAND", clock) \in Int /\ FromEnv("ERR_RATE", 0) \in Int
        /\ FromEnv("DEBUG", 0) \in Int
    BY <1>2, <2>1 DEF DataOK, FromEnv
  <2>3. main \in Libraries
    BY <1>3, <2>2 DEF Libraries
  <2>4. Obeys(main)
    BY <1>3 DEF Obeys, FromEnv
  <2> QED
    BY <1>3, <2>3, <2>4 DEF ProcessOK, CountsFromTime, UsesOwn
<1>5. ChildrenOK
  BY <1>3, SeedsAssumption DEF ChildrenOK
<1>6. SeedsBelow
  BY <1>3 DEF SeedsBelow
<1>7. TimesOK
  BY <1>3 DEF TimesOK, SeededBy
<1> QED
  BY <1>1, <1>2, <1>4, <1>5, <1>6, <1>7 DEF SeedsInv

LEMMA MainInitStep == ASSUME SeedsInv, MainInit PROVE SeedsInv'
<1>1. PICK lib \in sendErr_init(main) :
        /\ main' = [lib EXCEPT !.stage = "SERVE"]
        /\ clock' = IF lib.nextSeed > clock THEN lib.nextSeed ELSE clock
        /\ clock' <= MaxTime
        /\ UNCHANGED <<data, children>>
  BY DEF MainInit
<1>2. /\ ProcessOK(main') /\ SeededBy(main', clock)
      /\ ClockOK' /\ clock' \in Nat /\ clock <= clock'
  BY <1>1, Served DEF SeedsInv, ProcessOK
<1>3. ProcessOK(main)'
  BY <1>1, <1>2 DEF ProcessOK, CountsFromTime, Obeys, UsesOwn
<1>4. children' = <<>>
  BY <1>1 DEF MainInit, SeedsInv, ChildrenOK
<1>5. ChildrenOK' /\ SeedsBelow'
  BY <1>4, SeedsAssumption DEF ChildrenOK, SeedsBelow
<1>6. DataOK'
  BY <1>1 DEF SeedsInv, DataOK
<1>7. TimesOK'
  <2>1. PICK q \in Libraries : q = main' /\ SeededBy(q, clock)
    BY <1>2 DEF ProcessOK
  <2>2. PICK c \in Nat : c = clock'
    BY <1>2
  <2>3. SeededBy(q, c)
    BY <1>2, <2>1, <2>2, StillSeeded DEF SeedsInv
  <2> QED
    BY <1>1, <1>4, <2>1, <2>2, <2>3 DEF TimesOK, SeededBy
<1> QED
  BY <1>2, <1>3, <1>5, <1>6, <1>7 DEF SeedsInv

LEMMA ForkStep == ASSUME SeedsInv, forkMod PROVE SeedsInv'
<1> DEFINE parent == [main EXCEPT !.nextSeed = @ + 1]
           seeded == setUserMode_SeedRand(parent, main.nextSeed)
           child == [seeded EXCEPT !.stage = "FORKED"]
<1>0. /\ main.stage = "SERVE" /\ Len(children) < MaxChildren
      /\ main' = parent
      /\ children' = Append(children, child)
      /\ UNCHANGED <<clock, data>>
  BY DEF forkMod
<1>1. /\ main \in Libraries /\ Obeys(main) /\ UsesOwn(main) /\ main.nextSeed \in Nat
      /\ SeededBy(main, clock)
      /\ \E t \in StartTimes : main.nextSeed >= t
  BY <1>0, LibraryFields DEF SeedsInv, ProcessOK, CountsFromTime, TimesOK
<1>2. PICK t \in StartTimes : main.nextSeed >= t /\ t \in Nat
  BY <1>1, SeedsAssumption
<1>3. /\ parent \in Libraries /\ parent.stage = "SERVE"
      /\ parent.nextSeed = main.nextSeed + 1
      /\ parent.seed = main.seed /\ parent.rate = main.rate /\ parent.debug = main.debug
  BY <1>0, <1>1 DEF Libraries
<1> HIDE DEF parent
<1>4. Obeys(parent) /\ UsesOwn(parent) /\ SeededBy(parent, clock)
  BY <1>0, <1>1, <1>3 DEF Obeys, UsesOwn, SeededBy
<1>5. /\ seeded \in Libraries /\ Obeys(seeded) /\ seeded.nextSeed = main.nextSeed + 1
      /\ seeded.rate = parent.rate /\ seeded.debug = parent.debug
      /\ ~data["SEEDRAND"].isSet => seeded.seed = main.nextSeed
  <2>1. PICK s \in Int : s = main.nextSeed
    BY <1>1
  <2>2. /\ seeded \in Libraries /\ seeded.nextSeed = parent.nextSeed
        /\ seeded.rate = parent.rate /\ seeded.debug = parent.debug
        /\ Obeys(parent) => Obeys(seeded)
        /\ ~data["SEEDRAND"].isSet => seeded.seed = s
    BY <1>3, <2>1, SeedRand
  <2> QED
    BY <1>3, <1>4, <2>1, <2>2
<1> HIDE DEF seeded
<1>6. /\ child \in Libraries /\ child.nextSeed = main.nextSeed + 1 /\ child.stage = "FORKED"
      /\ child.seed = seeded.seed /\ child.rate = seeded.rate /\ child.debug = seeded.debug
  BY <1>5 DEF Libraries
<1> HIDE DEF child
<1>7. ProcessOK(parent) /\ ProcessOK(child)
  <2>1. main.nextSeed + 1 >= t
    BY <1>1, <1>2
  <2>2. Obeys(child) /\ UsesOwn(child)
    BY <1>3, <1>4, <1>5, <1>6 DEF Obeys, UsesOwn
  <2> QED
    BY <1>2, <1>3, <1>4, <1>6, <2>1, <2>2 DEF ProcessOK, CountsFromTime
<1>8. /\ children \in Seq(Libraries) /\ Len(children) \in Nat
      /\ children' \in Seq(Libraries) /\ Len(children') = Len(children) + 1
      /\ \A k \in 1 .. Len(children) : children'[k] = children[k]
      /\ children'[Len(children) + 1] = child
      /\ \A k \in 1 .. Len(children') : k \in 1 .. Len(children) \/ k = Len(children) + 1
  BY <1>0, <1>6 DEF SeedsInv, ChildrenOK
<1>9. ChildrenOK'
  <2>1. \A k \in 1 .. Len(children') : ProcessOK(children'[k])
    BY <1>7, <1>8 DEF SeedsInv, ChildrenOK
  <2>2. \A k \in 1 .. Len(children') : ProcessOK(children[k])'
    BY <1>0, <2>1 DEF ProcessOK, CountsFromTime, Obeys, UsesOwn
  <2>3. Len(children') <= MaxChildren
    BY <1>0, <1>8, SeedsAssumption
  <2>4. main'.stage # "START"
    BY <1>0, <1>3
  <2> QED
    BY <1>8, <2>2, <2>3, <2>4 DEF ChildrenOK
<1>10. SeedsBelow'
  <2> SUFFICES ASSUME ~data["SEEDRAND"].isSet
               PROVE  /\ \A i \in 1 .. Len(children') :
                           children'[i].stage = "FORKED" => children'[i].seed < main'.nextSeed
                      /\ \A i, j \in 1 .. Len(children') :
                           i # j /\ children'[i].stage = "FORKED" /\ children'[j].stage = "FORKED"
                             => children'[i].seed # children'[j].seed
    BY <1>0 DEF SeedsBelow
  <2>1. child.seed = main.nextSeed /\ main'.nextSeed = main.nextSeed + 1
    BY <1>0, <1>3, <1>5, <1>6
  <2>2. \A i \in 1 .. Len(children) : children[i] \in Libraries /\ children[i].seed \in Int
    <3>1. \A i \in 1 .. Len(children) : children[i] \in Libraries
      BY <1>8
    <3> QED
      BY <3>1, LibraryFields
  <2>3. /\ \A i \in 1 .. Len(children) :
             children[i].stage = "FORKED" => children[i].seed < main.nextSeed
        /\ \A i, j \in 1 .. Len(children) :
             i # j /\ children[i].stage = "FORKED" /\ children[j].stage = "FORKED"
               => children[i].seed # children[j].seed
    BY DEF SeedsInv, SeedsBelow
  <2>4. \A i \in 1 .. Len(children') :
          children'[i].stage = "FORKED" => children'[i].seed < main'.nextSeed
    BY <1>1, <1>8, <2>1, <2>2, <2>3
  <2>5. \A i, j \in 1 .. Len(children') :
          i # j /\ children'[i].stage = "FORKED" /\ children'[j].stage = "FORKED"
            => children'[i].seed # children'[j].seed
    <3> SUFFICES ASSUME NEW i \in 1 .. Len(children'), NEW j \in 1 .. Len(children'), i # j,
                        children'[i].stage = "FORKED", children'[j].stage = "FORKED"
                 PROVE  children'[i].seed # children'[j].seed
      OBVIOUS
    <3>1. CASE i \in 1 .. Len(children) /\ j \in 1 .. Len(children)
      BY <1>8, <2>3, <3>1
    <3>2. CASE i \in 1 .. Len(children) /\ j = Len(children) + 1
      <4>1. children[i].seed < main.nextSeed /\ children[i].seed \in Int
        BY <1>8, <2>2, <2>3, <3>2
      <4> QED
        BY <1>1, <1>8, <2>1, <3>2, <4>1
    <3>3. CASE i = Len(children) + 1 /\ j \in 1 .. Len(children)
      <4>1. children[j].seed < main.nextSeed /\ children[j].seed \in Int
        BY <1>8, <2>2, <2>3, <3>3
      <4> QED
        BY <1>1, <1>8, <2>1, <3>3, <4>1
    <3> QED
      BY <1>8, <3>1, <3>2, <3>3
  <2> QED
    BY <2>4, <2>5
<1>11. ProcessOK(main)'
  BY <1>0, <1>7 DEF ProcessOK, CountsFromTime, Obeys, UsesOwn
<1>12. TimesOK'
  <2>1. SeededBy(child, clock)
    BY <1>6 DEF SeededBy
  <2> QED
    BY <1>0, <1>4, <1>8, <2>1 DEF SeedsInv, TimesOK, SeededBy
<1> QED
  BY <1>0, <1>9, <1>10, <1>11, <1>12 DEF SeedsInv, ClockOK, DataOK

LEMMA ForkFailsStep == ASSUME SeedsInv, forkFails PROVE SeedsInv'
<1>0. /\ main.stage = "SERVE"
      /\ main' = [main EXCEPT !.nextSeed = @ + 1, !.stage = "EXITED"]
      /\ UNCHANGED <<clock, data, children>>
  BY DEF forkFails
<1>1. /\ main \in Libraries /\ Obeys(main) /\ UsesOwn(main) /\ main.nextSeed \in Nat
      /\ SeededBy(main, clock)
      /\ \E t \in StartTimes : main.nextSeed >= t
  BY <1>0, LibraryFields DEF SeedsInv, ProcessOK, CountsFromTime, TimesOK
<1>2. PICK t \in StartTimes : main.nextSeed >= t /\ t \in Nat
  BY <1>1, SeedsAssumption
<1>3. /\ main' \in Libraries /\ main'.stage = "EXITED" /\ main'.nextSeed = main.nextSeed + 1
      /\ main'.seed = main.seed /\ main'.rate = main.rate /\ main'.debug = main.debug
  <2> DEFINE counted == [main EXCEPT !.nextSeed = @ + 1]
  <2>1. /\ counted \in Libraries /\ counted.nextSeed = main.nextSeed + 1
        /\ counted.seed = main.seed /\ counted.rate = main.rate /\ counted.debug = main.debug
    BY <1>1 DEF Libraries
  <2>2. main' = [counted EXCEPT !.stage = "EXITED"]
    BY <1>0, <1>1 DEF Libraries
  <2> HIDE DEF counted
  <2> QED
    BY <2>1, <2>2 DEF Libraries
<1>4. main'.nextSeed >= t
  BY <1>1, <1>2, <1>3
<1>5. ProcessOK(main)'
  BY <1>0, <1>1, <1>2, <1>3, <1>4 DEF ProcessOK, CountsFromTime, Obeys, UsesOwn
<1>6. ChildrenOK'
  BY <1>0, <1>3 DEF SeedsInv, ChildrenOK, ProcessOK, CountsFromTime, Obeys, UsesOwn
<1>7. SeedsBelow'
  <2>1. \A i \in 1 .. Len(children) : children[i] \in Libraries
    BY DEF SeedsInv, ChildrenOK
  <2>2. \A i \in 1 .. Len(children) : children[i].seed \in Int
    BY <2>1, LibraryFields
  <2> QED
    BY <1>0, <1>1, <1>3, <2>2 DEF SeedsInv, SeedsBelow
<1>8. TimesOK'
  BY <1>0, <1>1, <1>3 DEF SeedsInv, TimesOK, SeededBy
<1> QED
  BY <1>0, <1>5, <1>6, <1>7, <1>8 DEF SeedsInv, ClockOK, DataOK

LEMMA ChildInitStep ==
  ASSUME SeedsInv, NEW k \in DOMAIN children, ChildInit(k)
  PROVE  SeedsInv'
<1>1. PICK lib \in sendErr_init(children[k]) :
        /\ children' = [children EXCEPT ![k] = [lib EXCEPT !.stage = "SERVE"]]
        /\ clock' = IF lib.nextSeed > clock THEN lib.nextSeed ELSE clock
        /\ clock' <= MaxTime
        /\ UNCHANGED <<data, main>>
  BY DEF ChildInit
<1> DEFINE q == [lib EXCEPT !.stage = "SERVE"]
<1>2. /\ children \in Seq(Libraries) /\ k \in 1 .. Len(children) /\ Len(children) \in Nat
      /\ \A i \in 1 .. Len(children) : ProcessOK(children[i])
  BY DEF SeedsInv, ChildrenOK
<1>3. children[k] \in Libraries /\ Obeys(children[k])
  BY <1>2 DEF ProcessOK
<1>4. /\ ProcessOK(q) /\ SeededBy(q, clock)
      /\ ClockOK' /\ clock' \in Nat /\ clock <= clock'
  BY <1>1, <1>3, Served
<1>5. q.stage = "SERVE"
  <2>1. lib \in Libraries
    BY <1>3, SendErrInit DEF SeedsInv
  <2> QED
    BY <2>1 DEF Libraries
<1> HIDE DEF q
<1>6. /\ children' \in Seq(Libraries) /\ Len(children') = Len(children)
      /\ \A i \in 1 .. Len(children) : children'[i] = IF i = k THEN q ELSE children[i]
  BY <1>1, <1>2, <1>4 DEF ProcessOK, q
<1>7. ChildrenOK'
  <2>1. \A i \in 1 .. Len(children') : ProcessOK(children'[i])
    BY <1>2, <1>4, <1>6
  <2>2. \A i \in 1 .. Len(children') : ProcessOK(children[i])'
    BY <1>1, <2>1 DEF ProcessOK, CountsFromTime, Obeys, UsesOwn
  <2>3. main'.stage # "START"
    BY <1>1, <1>2 DEF SeedsInv, ChildrenOK
  <2> QED
    BY <1>6, <2>2, <2>3 DEF SeedsInv, ChildrenOK
<1>8. SeedsBelow'
  <2>1. \A i \in 1 .. Len(children) :
          children'[i].stage = "FORKED" => children'[i] = children[i]
    BY <1>5, <1>6
  <2> QED
    BY <1>1, <1>6, <2>1 DEF SeedsInv, SeedsBelow
<1>9. ProcessOK(main)' /\ DataOK'
  BY <1>1 DEF SeedsInv, ProcessOK, CountsFromTime, Obeys, UsesOwn, DataOK
<1>10. TimesOK'
  <2>1. PICK c \in Nat : c = clock' /\ clock <= c
    BY <1>4
  <2>2. SeededBy(main, c)
    BY <2>1, StillSeeded DEF SeedsInv, ProcessOK, TimesOK
  <2>3. ASSUME NEW i \in 1 .. Len(children) PROVE SeededBy(children'[i], c)
    <3>1. PICK p \in Libraries : p = children'[i]
      BY <1>2, <1>4, <1>6 DEF ProcessOK
    <3>2. SeededBy(p, clock)
      BY <1>4, <1>6, <3>1 DEF SeedsInv, TimesOK
    <3> QED
      BY <2>1, <3>1, <3>2, StillSeeded DEF SeedsInv
  <2> QED
    BY <1>1, <1>6, <2>1, <2>2, <2>3 DEF TimesOK, SeededBy
<1> QED
  BY <1>4, <1>7, <1>8, <1>9, <1>10 DEF SeedsInv

LEMMA SeedsInvStep == SeedsInv /\ [Next]_vars => SeedsInv'
<1> SUFFICES ASSUME SeedsInv, [Next]_vars PROVE SeedsInv'
  OBVIOUS
<1>1. CASE MainInit
  BY <1>1, MainInitStep
<1>2. CASE forkMod
  BY <1>2, ForkStep
<1>3. CASE forkFails
  BY <1>3, ForkFailsStep
<1>4. ASSUME NEW k \in DOMAIN children, ChildInit(k) PROVE SeedsInv'
  BY <1>4, ChildInitStep
<1>5. CASE Tick
  <2>1. clock' \in 0 .. MaxTime /\ \E t \in StartTimes : t <= clock'
    <3>1. PICK t \in StartTimes : t <= clock /\ t \in Nat
      BY SeedsAssumption DEF SeedsInv, ClockOK
    <3>2. clock' = clock + 1 /\ clock < MaxTime /\ clock \in Nat
      BY <1>5, SeedsAssumption DEF SeedsInv, ClockOK, Tick
    <3>3. t <= clock'
      BY <3>1, <3>2
    <3> QED
      BY <3>2, <3>3, SeedsAssumption
  <2>2. PICK c \in Nat : c = clock' /\ clock <= c
    BY <1>5, SeedsAssumption DEF SeedsInv, ClockOK, Tick
  <2>3. \A k \in 1 .. Len(children) : children[k] \in Libraries /\ SeededBy(children[k], clock)
    BY DEF SeedsInv, ChildrenOK, ProcessOK, TimesOK
  <2>4. /\ SeededBy(main, c)
        /\ \A k \in 1 .. Len(children) : SeededBy(children[k], c)
    BY <2>2, <2>3, StillSeeded DEF SeedsInv, ProcessOK, TimesOK
  <2>5. TimesOK'
    BY <1>5, <2>2, <2>4 DEF Tick, TimesOK, SeededBy
  <2> QED
    BY <1>5, <2>1, <2>5 DEF Tick, SeedsInv, ClockOK, DataOK, ProcessOK, CountsFromTime,
                            Obeys, UsesOwn, ChildrenOK, SeedsBelow
<1>6. CASE UNCHANGED vars
  BY <1>6 DEF vars, SeedsInv, ClockOK, DataOK, ProcessOK, CountsFromTime, Obeys,
              UsesOwn, ChildrenOK, SeedsBelow, TimesOK, SeededBy
<1> QED
  BY <1>1, <1>2, <1>3, <1>4, <1>5, <1>6 DEF Next

LEMMA SeedsInvCorrect == Spec => []SeedsInv
<1> QED
  BY InitSeedsInv, SeedsInvStep, PTL DEF Spec

\* The processes are the main server and its children.
LEMMA InstancesAre ==
  ASSUME SeedsInv, NEW p \in Instances
  PROVE  ProcessOK(p) /\ SeededBy(p, clock)
<1>1. DOMAIN children = 1 .. Len(children)
  BY DEF SeedsInv, ChildrenOK
<1> QED
  BY <1>1 DEF Instances, ToSet, SeedsInv, ChildrenOK, TimesOK

-----------------------------------------------------------------------------
(***************************************************************************)
(* The libraries of all processes are well-formed, and once past           *)
(* sendErr_init none counts its seeds from RANDOM_SEED any more            *)
(* (network-hooks.c:196).                                                  *)
(***************************************************************************)
THEOREM TypeCorrect == Spec => []TypeOK
<1>1. SeedsInv => TypeOK
  <2> SUFFICES ASSUME SeedsInv PROVE TypeOK
    OBVIOUS
  <2>1. \A p \in Instances : ProcessOK(p)
    BY InstancesAre
  <2>2. Instances \subseteq Libraries
    BY <2>1 DEF ProcessOK
  <2>3. \A p \in Instances : CountsFromTime(p)
    BY <2>1 DEF ProcessOK
  <2> QED
    BY <2>2, <2>3 DEF SeedsInv, ClockOK, DataOK, ChildrenOK, CountsFromTime, TypeOK
<1> QED
  BY <1>1, SeedsInvCorrect, PTL

(***************************************************************************)
(* What the environment gives is what every process uses, through the      *)
(* constructor, sendErr_init, fork and the second sendErr_init of a child; *)
(* where it is silent, a process past sendErr_init has the program's own   *)
(* error rate and debug level, and a seed that is a time since the start   *)
(* (SettingsManager.h:5-6, SettingsManager.cpp:296-326).                   *)
(***************************************************************************)
THEOREM EnvironmentCorrect == Spec => []EnvironmentWins
<1>1. SeedsInv => EnvironmentWins
  BY InstancesAre DEF ProcessOK, Obeys, UsesOwn, SeededBy, EnvironmentWins
<1> QED
  BY <1>1, SeedsInvCorrect, PTL

(***************************************************************************)
(* Children that have been forked and have not called sendErr_init yet     *)
(* have seeds of their own (network-hooks.c:55-70).                        *)
(***************************************************************************)
THEOREM SeedsCorrect == Spec => []ForkedSeedsDiffer
<1>1. SeedsInv => ForkedSeedsDiffer
  <2> SUFFICES ASSUME SeedsInv PROVE ForkedSeedsDiffer
    OBVIOUS
  <2>1. DOMAIN children = 1 .. Len(children)
    BY DEF SeedsInv, ChildrenOK
  <2> QED
    BY <2>1 DEF SeedsInv, SeedsBelow, ForkedSeedsDiffer
<1> QED
  BY <1>1, SeedsInvCorrect, PTL
=============================================================================
