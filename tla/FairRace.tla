------------------------------- MODULE FairRace -------------------------------
(***************************************************************************)
(* What a game promises, whoever plays it and in whatever order they call: *)
(* a race for the fewest guesses that is fair, whose winners are named     *)
(* once, only when nobody can catch up with them, and named in full.       *)
(* There are no rounds here: rounds are how TGameController keeps promise. *)
(***************************************************************************)
EXTENDS Integers, FiniteSets

CONSTANT Racer

VARIABLES
  phase,     (* "lobby", "race" or "over"                                  *)
  outcome,   (* of each racer: "out" of it, still "in", "hit", "gave_up"   *)
  guesses,   (* how many guesses each racer has made                       *)
  winners    (* the racers named as winners, for good                      *)

raceVars == <<phase, outcome, guesses, winners>>

RaceInit ==
  /\ phase = "lobby"
  /\ outcome = [r \in Racer |-> "out"]
  /\ guesses = [r \in Racer |-> 0]
  /\ winners = {}

Still == {r \in Racer : outcome[r] = "in"}
Hit   == {r \in Racer : outcome[r] = "hit"}

(* No racer still in can match the best of those that hit.                 *)
Final(hit, still, made) ==
  \E b \in hit : \A r \in still : made[r] >= made[b]

Best(hit, made) == {b \in hit : \A r \in hit : made[b] <= made[r]}

-----------------------------------------------------------------------------
Lobby ==
  /\ phase' = "lobby"
  /\ outcome' = [r \in Racer |-> "out"]
  /\ guesses' = [r \in Racer |-> 0]
  /\ winners' = {}

Start ==
  /\ phase = "lobby"
  /\ phase' = "race"
  /\ outcome' \in [Racer -> {"out", "in"}]
  /\ UNCHANGED <<guesses, winners>>

(* Any number of racers make one guess or give up, with the guesses of     *)
(* those still in never more than one apart.                               *)
Play ==
  /\ phase = "race"
  /\ outcome' \in [Racer -> {"out", "in", "hit", "gave_up"}]
  /\ guesses' \in [Racer -> Nat]
  /\ \A r \in Racer :
        \/ outcome'[r] = outcome[r] /\ guesses'[r] = guesses[r]
        \/ /\ outcome[r] = "in"
           /\ \/ outcome'[r] \in {"in", "hit"} /\ guesses'[r] = guesses[r] + 1
              \/ outcome'[r] = "gave_up" /\ guesses'[r] = guesses[r]
  /\ \A r, s \in Still' : guesses'[r] <= guesses'[s] + 1

(* Winners are named at most once, and never before the race is settled.   *)
Name ==
  \/ winners' = winners
  \/ /\ winners = {}
     /\ Final(Hit', Still', guesses')
     /\ winners' = Best(Hit', guesses')

(* The race is over when everybody is done and the best have been named.   *)
Close ==
  \/ phase' = "race"
  \/ phase' = "over" /\ Still' = {} /\ (Hit' # {} => winners' # {})

Race == Play /\ Name /\ Close

(* A racer leaves the finished race; the names stay.                       *)
Leave(r) ==
  /\ phase = "over"
  /\ outcome' = [outcome EXCEPT ![r] = "out"]
  /\ guesses' = [guesses EXCEPT ![r] = 0]
  /\ UNCHANGED <<phase, winners>>

RaceNext == Lobby \/ Start \/ Race \/ \E r \in Racer : Leave(r)

RaceSpec == RaceInit /\ [][RaceNext]_raceVars
=============================================================================
