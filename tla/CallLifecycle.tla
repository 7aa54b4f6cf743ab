---------------------------- MODULE CallLifecycle ----------------------------
(***************************************************************************)
(* The states of an ExecutionCheckpoint and the steps between them.  The   *)
(* coordinator is checked to take no other step; the session, which sees   *)
(* a tool call only through its checkpoint, is built on these steps.       *)
(***************************************************************************)

ExecutionState ==
  {"pending", "awaiting_approval", "executing", "completed", "denied",
   "recovery_required", "awaiting_reconcile"}

Terminal == {"completed", "denied"}

\* The first state saved for a call.
FirstStates == {"executing", "awaiting_approval"}

Lifecycle ==
  {<<"absent", to>> : to \in FirstStates}
    \cup {<<"awaiting_approval", "executing">>,
          <<"awaiting_approval", "denied">>,
          <<"executing", "completed">>,
          <<"executing", "recovery_required">>,
          <<"recovery_required", "awaiting_reconcile">>,
          <<"recovery_required", "pending">>,
          <<"awaiting_reconcile", "completed">>}
    \cup {<<"pending", to>> :
            to \in {"executing", "awaiting_approval", "denied"}}

\* The states in which a run stops and waits for an operator.
PauseStates == {"awaiting_approval", "recovery_required", "awaiting_reconcile"}

=============================================================================
