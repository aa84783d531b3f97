------------------------- MODULE MCInstructorJourney -------------------------
(* The instructors who walk through their pages in TLC's instances. *)
EXTENDS InstructorJourney, TLC

(* One centre is as good as another. *)
CentreSymmetry == Permutations(Centres)

(* A test with a choice of language, and one without. *)
Trainer ==
  [types |-> {"adip1", "ers"}, support |-> {"voiceover", "other"},
   faults |-> {"taken", "unpaid"}, most |-> 2]

(* Somebody whose support a standard test cannot give. *)
SupportedTrainer ==
  [types |-> {"ers"}, support |-> {"voiceover", "extraTime", "other"},
   faults |-> {"create", "lost"}, most |-> 1]

(* The northern test without a fee, and without a voiceover. *)
NorthernTrainer ==
  [types |-> {"adip1", "adip1dva"}, support |-> {}, faults |-> {}, most |-> 2]

Trainers == {Trainer, SupportedTrainer, NorthernTrainer}
===============================================================================
