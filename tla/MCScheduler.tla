---------------------------- MODULE MCScheduler ----------------------------
EXTENDS Scheduler

\* Two letters of one pull request, the first of which is finalized later.
TwoLetters == 1 .. 2
First == {1}
=============================================================================
