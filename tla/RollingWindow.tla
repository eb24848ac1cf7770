---------------------------- MODULE RollingWindow ----------------------------
(***************************************************************************)
(* ProviderSchedule in front of a provider whose window is not open: such  *)
(* a provider reports "now + the window" on every reading, so the reset it *)
(* reports moves later for as long as nobody runs the model.  The policy   *)
(* accepts the first reset, tolerates RESET_NEAR of movement, and must     *)
(* then hold the deadline although every later reading is fresh,           *)
(* plausible and farther away -- otherwise the provider is never run.      *)
(*                                                                         *)
(* A reading is applied up to MaxLag after the provider computed it: it is *)
(* collected with the other providers' readings and stamped afterwards     *)
(* (app.py takes `now` after collect has returned).                        *)
(***************************************************************************)
EXTENDS ProviderSchedule

CONSTANTS
  Window,  \* the length the provider adds to its own clock
  MaxLag   \* age of a reading when the policy stamps it

ASSUME RollingAssumption == Window \in Nat /\ MaxLag \in Nat

\* Two readings that agree are closer together than the age the policy asks
\* of a candidate, even if the second one is stamped late.
PromptStamps == CONFIRM_MATCH + MaxLag < CONFIRM_MIN_AGE

RollingReadings ==
  {NO_OBSERVATION} \cup
  {[fresh |-> TRUE, reset_at |-> taken + Window] :
     taken \in Max2(0, now - MaxLag) .. now}

RollingNext == Step(RollingReadings)

RollingSpec == Init /\ [][RollingNext]_vars

-----------------------------------------------------------------------------
\* README.md:788-793, of sync_deadline: a rolling reset is never promoted, so
\* it cannot chase the deadline.  Between two successes the anchor, once
\* established, stays where it is.  This holds under PromptStamps; when a
\* reading may be stamped later than that, it does not.
AnchorStays ==
  [][ trigger = "enabled" /\ st.reset_anchor # Unset
        => st'.reset_anchor = st.reset_anchor \/ SuccessStep ]_vars

\* Why: a candidate is at most Window after its stamp, and not much less.
CandidateRolls ==
  st.reset_candidate # Unset =>
    /\ st.reset_candidate.reset_at <= st.reset_candidate.observed_at + Window
    /\ st.reset_candidate.reset_at + MaxLag >= st.reset_candidate.observed_at + Window
=============================================================================
