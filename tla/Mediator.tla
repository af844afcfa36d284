------------------------------- MODULE Mediator -------------------------------
(***************************************************************************)
(* The StatefulMediator of arstotzka as the commands of src/ use it: a     *)
(* lock that one process at a time holds between reserveAccess and         *)
(* removeLock, and a registry of actions, each open until updateAction     *)
(* closes it.  The library is not part of the repository; what is here is  *)
(* what the code relies on.                                                *)
(***************************************************************************)
EXTENDS Integers

CONSTANTS MediatorEnabled       \* arstotzka.enabled

ASSUME MediatorAssumption == MediatorEnabled \in BOOLEAN

VARIABLES lock,             \* "free", held by this process, or left by a dead one
          openAction,       \* the state of the action this process has open
          abandonedActions  \* states of open actions that nobody will close

mediatorVars == <<lock, openAction, abandonedActions>>

NoAction == -1

MediatorInit ==
  /\ lock = "free"
  /\ openAction = NoAction
  /\ abandonedActions = {}

\* A variant with a plausible slip: the reservation is not made.
reserveAccessSkipped == UNCHANGED mediatorVars

\* Every operation is skipped without a mediator (mediator?.operation()).
reserveAccess ==
  /\ IF MediatorEnabled THEN lock = "free" /\ lock' = "ours" ELSE UNCHANGED lock
  /\ UNCHANGED <<openAction, abandonedActions>>

removeLock ==
  /\ lock' = "free"
  /\ UNCHANGED <<openAction, abandonedActions>>

createAction(state) ==
  /\ openAction' = IF MediatorEnabled THEN state ELSE NoAction
  /\ UNCHANGED <<lock, abandonedActions>>

updateAction ==
  /\ openAction' = NoAction
  /\ UNCHANGED <<lock, abandonedActions>>

\* A process that ends while it holds the lock leaves it behind.
lockAtExit == IF lock = "ours" THEN "left" ELSE lock

\* The process is gone: nobody removes its lock or closes its action.
abandon(lockAfter, action) ==
  /\ lock' = lockAfter
  /\ openAction' = NoAction
  /\ abandonedActions' =
       IF action = NoAction THEN abandonedActions ELSE abandonedActions \cup {action}

\* A lock has an expiration.
expireLock ==
  /\ lock = "left"
  /\ lock' = "free"
  /\ UNCHANGED <<openAction, abandonedActions>>
=============================================================================
