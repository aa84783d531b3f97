-------------------------- MODULE MCCandidateJourney --------------------------
(* The people who walk through the candidate's pages in TLC's instances. *)
EXTENDS CandidateJourney, TLC

(* One centre is as good as another. *)
CentreSymmetry == Permutations(Centres)

(* Somebody whose support needs every page but that of voiceovers. *)
Supported ==
  [types |-> {"car"}, support |-> {"translator", "extraTime", "other"},
   faults |-> {"create", "lost", "taken", "unpaid"}, most |-> 2]

(* Somebody with two tests to choose from, and sign language or a voiceover. *)
(* No slot is taken between the choice and the submission.                   *)
Undecided ==
  [types |-> {"car", "lgvHpt"}, support |-> {"voiceover", "bsl"},
   faults |-> {"create", "lost", "unpaid"}, most |-> 1]

(* Somebody with an open request who books a standard test. *)
Waiting == [types |-> {"car"}, support |-> {"voiceover"}, faults |-> {}, most |-> 2]

(* Somebody whose support may make them come back with another request. *)
Deaf == [types |-> {"car"}, support |-> {"bsl"}, faults |-> {}, most |-> 2]

Everybody == {Supported, Undecided, Deaf}
OnlyWaiting == {Waiting}
===============================================================================
