------------------------------- MODULE Seeds -------------------------------
(***************************************************************************)
(* The error library across fork: the seed, the error rate and the debug   *)
(* level of the main server and of the children it forks (network-hooks.c, *)
(* SettingsManager.cpp).  Two processes with the same seed and rate draw   *)
(* the same numbers, and lose and invert the same messages.                *)
(***************************************************************************)
EXTENDS Settings

CONSTANTS
  Env,           \* environments: the values of the three variables
  Rate,          \* the error rate that the program is given
  StartTimes,    \* values of time(NULL) when the server starts
  IntMax,        \* the largest int; 2147483647 in the code
  MaxTime,       \* the last value of time(NULL)
  MaxChildren    \* bound on the children

Keys == {"SEEDRAND", "ERR_RATE", "DEBUG"}

DEBUG_ON == 1

\* What an int holds.
int == {n \in Int : -IntMax - 1 <= n /\ n <= IntMax}

\* dbg_setlevel takes an int, srand48 looks at 32 bits: the environment gives
\* no more.  nextSeed, an int counted up from a time, does not overflow.
ASSUME SeedsAssumption ==
  /\ MaxTime \in Nat /\ StartTimes \subseteq 0 .. MaxTime
  /\ MaxChildren \in Nat /\ IntMax \in Nat /\ MaxTime + MaxChildren < IntMax
  /\ Rate \in Int
  /\ Env \subseteq [Keys -> [exists : BOOLEAN,
                             tokens : Seq([isNumber : BOOLEAN, n : int])]]

VARIABLES
  clock,     \* time(NULL)
  data,      \* m_EnvData of all processes: it is never changed
  main,      \* the main server: its stage and its libraries' state
  children   \* its children, in the order of the forks

vars == <<clock, data, main, children>>

-----------------------------------------------------------------------------
\* setRandSeed, setErrorRate and dbg_setlevel keep what they are given.
setRandSeed(lib, seed) == [lib EXCEPT !.seed = seed]
setErrorRate(lib, rate) == [lib EXCEPT !.rate = rate]
dbg_setlevel(lib, level) == [lib EXCEPT !.debug = level]

FromEnv(key, default) == IF data[key].isSet THEN data[key].list[1] ELSE default

\* The constructors of PacketManager and SettingsManager, before main runs.
\* nextSeed starts as RANDOM_SEED.
Init ==
  /\ clock \in StartTimes
  /\ \E e \in Env : data = [key \in Keys |-> loadEnvData_Number(e[key])]
  /\ main = [stage    |-> "START",
             nextSeed |-> 10,
             seed     |-> FromEnv("SEEDRAND", clock),
             rate     |-> FromEnv("ERR_RATE", 0),
             debug    |-> FromEnv("DEBUG", 0)]
  /\ children = <<>>

setUserMode_SeedRand(lib, seed) ==
  IF data["SEEDRAND"].isSet THEN lib ELSE setRandSeed(lib, seed)

setUserMode_ErrRate(lib, rate) ==
  IF data["ERR_RATE"].isSet THEN lib ELSE setErrorRate(lib, rate)

setUserMode_Debug(lib, level) ==
  IF data["DEBUG"].isSet THEN lib ELSE dbg_setlevel(lib, level)

\* Mutant: RSEED_ON is taken for RSEED_OFF in the second place.
sendErr_init_rseed_off(lib) ==
  LET rated == setUserMode_ErrRate(lib, Rate)
      seeded == setUserMode_SeedRand(rated, clock)
      debugged == setUserMode_Debug(seeded, DEBUG_ON)
  IN  {[debugged EXCEPT !.nextSeed = @ + 1]}

\* sendErr_init(rate, DROP_ON, FLIP_ON, DEBUG_ON, RSEED_ON); the clock may tick
\* between its two calls of time(NULL).
sendErr_init(lib) ==
  LET rated == setUserMode_ErrRate(lib, Rate)
      seeded == setUserMode_SeedRand(rated, clock)
      debugged == setUserMode_Debug(seeded, DEBUG_ON)
  IN  {[debugged EXCEPT !.nextSeed = now] : now \in clock .. (clock + 1)}

MainInit ==
  /\ main.stage = "START"
  /\ \E lib \in sendErr_init(main) :
       /\ main' = [lib EXCEPT !.stage = "SERVE"]
       /\ clock' = IF lib.nextSeed > clock THEN lib.nextSeed ELSE clock
  /\ clock' <= MaxTime
  /\ UNCHANGED <<data, children>>

\* Mutant: the parent does not count.
forkMod_same_seed ==
  /\ main.stage = "SERVE"
  /\ Len(children) < MaxChildren
  /\ children' = Append(children, [setUserMode_SeedRand(main, main.nextSeed)
                                   EXCEPT !.stage = "FORKED"])
  /\ UNCHANGED <<clock, data, main>>

\* Mutant: the seed is set whatever the environment says.
forkMod_sets_seed ==
  /\ main.stage = "SERVE"
  /\ Len(children) < MaxChildren
  /\ main' = [main EXCEPT !.nextSeed = @ + 1]
  /\ children' = Append(children, [setRandSeed(main', main.nextSeed)
                                   EXCEPT !.stage = "FORKED"])
  /\ UNCHANGED <<clock, data>>

\* The parent counts first; the child, a copy of it, takes the seed before.
forkMod ==
  /\ main.stage = "SERVE"
  /\ Len(children) < MaxChildren
  /\ main' = [main EXCEPT !.nextSeed = @ + 1]
  /\ children' = Append(children, [setUserMode_SeedRand(main', main.nextSeed)
                                   EXCEPT !.stage = "FORKED"])
  /\ UNCHANGED <<clock, data>>

\* fork fails after nextSeed has been counted, and the server exits.
forkFails ==
  /\ main.stage = "SERVE"
  /\ main' = [main EXCEPT !.nextSeed = @ + 1, !.stage = "EXITED"]
  /\ UNCHANGED <<clock, data, children>>

\* The child calls sendErr_init again (server.c:53), then serves its client.
ChildInit(k) ==
  /\ children[k].stage = "FORKED"
  /\ \E lib \in sendErr_init(children[k]) :
       /\ children' = [children EXCEPT ![k] = [lib EXCEPT !.stage = "SERVE"]]
       /\ clock' = IF lib.nextSeed > clock THEN lib.nextSeed ELSE clock
  /\ clock' <= MaxTime
  /\ UNCHANGED <<data, main>>

Tick ==
  /\ clock < MaxTime
  /\ clock' = clock + 1
  /\ UNCHANGED <<data, main, children>>

Next ==
  \/ MainInit
  \/ forkMod
  \/ forkFails
  \/ \E k \in DOMAIN children : ChildInit(k)
  \/ Tick

Spec == Init /\ [][Next]_vars

-----------------------------------------------------------------------------
\* The states of the error library of a process.
Libraries == [stage : {"START", "FORKED", "SERVE", "EXITED"}, nextSeed : Nat,
              seed : Int, rate : Int, debug : Int]

Instances == {main} \cup ToSet(children)

\* After sendErr_init with RSEED_ON the next seed is never counted from
\* RANDOM_SEED, but from a time (network-hooks.c:196).
TypeOK ==
  /\ clock \in 0 .. MaxTime
  /\ DOMAIN data = Keys
  /\ Instances \subseteq Libraries
  /\ Len(children) <= MaxChildren
  /\ \A p \in Instances :
       p.stage # "START" => \E t \in StartTimes : p.nextSeed >= t

(***************************************************************************)
(* "Should latter be defined, it will always have precedence over any      *)
(* compiled option" (SettingsManager.h:5-6): what the environment gives is *)
(* what every process uses, through the constructor, sendErr_init, fork    *)
(* and the second sendErr_init of a child (SettingsManager.cpp:296-326).   *)
(* Where it is silent, a process past sendErr_init has the program's own   *)
(* error rate and debug level, and a seed that is a time since the start.  *)
(***************************************************************************)
EnvironmentWins ==
  \A p \in Instances :
    /\ data["SEEDRAND"].isSet => p.seed = data["SEEDRAND"].list[1]
    /\ data["ERR_RATE"].isSet => p.rate = data["ERR_RATE"].list[1]
    /\ data["DEBUG"].isSet => p.debug = data["DEBUG"].list[1]
    /\ p.stage # "START" =>
         /\ ~data["ERR_RATE"].isSet => p.rate = Rate
         /\ ~data["DEBUG"].isSet => p.debug = DEBUG_ON
    /\ p.stage \in {"SERVE", "EXITED"} /\ ~data["SEEDRAND"].isSet =>
         \E t \in StartTimes : t <= p.seed /\ p.seed <= clock

(***************************************************************************)
(* Children that have been forked and have not called sendErr_init yet     *)
(* have seeds of their own, even those forked in the same second           *)
(* (network-hooks.c:55-70).                                                *)
(***************************************************************************)
ForkedSeedsDiffer ==
  ~data["SEEDRAND"].isSet =>
    \A i, j \in DOMAIN children :
      i # j /\ children[i].stage = "FORKED" /\ children[j].stage = "FORKED"
        => children[i].seed # children[j].seed
=============================================================================
