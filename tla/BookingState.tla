---------------------------- MODULE BookingState ----------------------------
(***************************************************************************)
(* The state machines of the booking funnel as pure operators:             *)
(* services/booking_state.py, services/booking_pnr_state.py and the        *)
(* funnel resolution of services/booking_readiness_service.py.             *)
(***************************************************************************)

BookingStatuses ==
    {"draft", "ready_for_review", "revalidation_required",
     "requires_agent_action", "ready_to_create_pnr", "abandoned",
     "pnr_created"}

RevalidationStatuses ==
    {"not_run", "matched", "price_changed", "fare_changed",
     "itinerary_changed", "unavailable", "error", "stale"}

PnrAttemptStatuses ==
    {"prepared", "submitting", "succeeded", "failed_safe",
     "reconciliation_required"}

\* _ALLOWED_TRANSITIONS of a Booking, as a relation.
AllowedTransitions ==
    ({"draft"} \X {"ready_for_review", "abandoned"})
    \cup ({"ready_for_review"}
            \X {"draft", "revalidation_required", "abandoned"})
    \cup ({"revalidation_required"}
            \X {"ready_for_review", "requires_agent_action",
                "ready_to_create_pnr", "abandoned"})
    \cup ({"requires_agent_action"}
            \X {"ready_for_review", "revalidation_required",
                "ready_to_create_pnr", "abandoned"})
    \cup ({"ready_to_create_pnr"}
            \X {"revalidation_required", "abandoned", "pnr_created"})

CanTransition(current, target) ==
    current = target \/ <<current, target>> \in AllowedTransitions

TerminalStatuses == {"abandoned", "pnr_created"}

PostRevalidationStatuses ==
    {"revalidation_required", "requires_agent_action", "ready_to_create_pnr"}

DecisiveResults == RevalidationStatuses \ {"not_run", "stale"}

\* invalidate_after_material_mutation: the pair of statuses after an edit.
InvalidateAfterMaterialMutation(status, reval) ==
    IF status \in PostRevalidationStatuses \/ reval \in DecisiveResults
      THEN [status |-> "revalidation_required", reval |-> "stale"]
      ELSE [status |-> status, reval |-> reval]

\* resolve_after_material_booking_data_mutation: what saving Contact does.
ResolveAfterMaterialMutation(status, reval, paxComplete, contactComplete) ==
    LET invalidated == InvalidateAfterMaterialMutation(status, reval)
    IN  IF \/ invalidated.status = "revalidation_required"
           \/ invalidated.reval = "stale"
          THEN invalidated
          ELSE [status |-> IF paxComplete /\ contactComplete
                             THEN "ready_for_review" ELSE "draft",
                reval |-> invalidated.reval]

\* The status passengers' update saves: an edit can demote a Booking that was
\* ready for review, it never promotes a draft.
ResolveAfterPassengerEdit(status, reval, paxComplete) ==
    LET invalidated == InvalidateAfterMaterialMutation(status, reval)
    IN  IF invalidated.status = "ready_for_review" /\ ~paxComplete
          THEN [status |-> "draft", reval |-> invalidated.reval]
          ELSE invalidated

\* _ALLOWED_TRANSITIONS of a Create PNR attempt.
AllowedAttemptTransitions ==
    ({"prepared", "failed_safe"} \X {"submitting"})
    \cup ({"submitting"}
            \X {"succeeded", "failed_safe", "reconciliation_required"})
    \cup ({"reconciliation_required"} \X {"succeeded", "failed_safe"})

CanTransitionPnrAttempt(current, target) ==
    current = target \/ <<current, target>> \in AllowedAttemptTransitions
=============================================================================
