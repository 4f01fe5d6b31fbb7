--------------------------- MODULE AdminController ---------------------------
(***************************************************************************)
(* Roles and the timelock of AdminController.sol.  The key of an entry of  *)
(* queuedActions is the hash of the call, its earliest execution and the   *)
(* block's time, so an id here is the record of them.  A call that         *)
(* reverts, at any depth, is a step that is not enabled.                   *)
(***************************************************************************)
EXTENDS Naturals, FiniteSets

CONSTANTS
  Accounts,       \* callers
  Controller,     \* address(this)
  InitialAdmin,
  InitialDelay,
  MIN_TIMELOCK, MAX_TIMELOCK, ACTION_EXPIRY,
  RoleGrants,     \* the <<account, role>> pairs tried with grantRole
  Delays,         \* the delays tried with setTimelockDelay
  MaxTime,        \* bound on the clock
  MaxQueued       \* bound on the actions ever queued

Roles == {"NONE", "OPERATOR", "ADMIN", "GUARDIAN"}
Holders == Accounts \union {Controller}

ASSUME ControllerAssumption ==
  /\ Controller \notin Accounts
  /\ InitialAdmin \in Accounts
  /\ RoleGrants \subseteq Holders \X Roles
  /\ Delays \subseteq Nat
  /\ MIN_TIMELOCK \in Nat \ {0}
  /\ MAX_TIMELOCK \in Nat
  /\ MIN_TIMELOCK <= MAX_TIMELOCK
  /\ ACTION_EXPIRY \in Nat
  /\ InitialDelay \in Nat

ASSUME DelayAssumption == InitialDelay >= MIN_TIMELOCK

VARIABLES
  roles,
  timelockDelay,
  queued,      \* ids with an entry in queuedActions
  executed,    \* ids whose entry has the flag executed
  cancelled,   \* ids whose entry has the flag cancelled
  now          \* block.timestamp

actionVars == <<queued, executed, cancelled>>
vars == <<roles, timelockDelay, actionVars, now>>

(* The calls on the controller that change only roles or the delay, and a  *)
(* call of another contract, which changes nothing here.                   *)
PlainCalls ==
  [op : {"grantRole"}, to : RoleGrants]
    \union [op : {"revokeRole"}, to : Holders]
    \union [op : {"setTimelockDelay"}, to : Delays]
    \union {[op |-> "external", to |-> "none"]}

PlainIds == [call : PlainCalls, executeAfter : Nat, queuedAt : Nat]

(* Actions may be calls of the controller about other actions. *)
NestedCalls ==
  [op : {"queueAction"}, to : PlainCalls]
    \union [op : {"executeAction", "cancelAction"}, to : PlainIds]

Ids == [call : PlainCalls \union NestedCalls, executeAfter : Nat, queuedAt : Nat]

Init ==
  /\ roles = [a \in Holders |->
       IF a \in {InitialAdmin, Controller} THEN "ADMIN" ELSE "NONE"]
  /\ timelockDelay = InitialDelay
  /\ queued = {}
  /\ executed = {}
  /\ cancelled = {}
  /\ now = 0

IsAdmin(caller) == roles[caller] = "ADMIN"
IsGuardian(caller) == roles[caller] \in {"GUARDIAN", "ADMIN"}
-----------------------------------------------------------------------------
(* The operations.  "running" are the actions whose execution the call is  *)
(* part of: they are marked executed before the call is made.              *)

GrantRole(caller, account, role, running) ==
  /\ IsAdmin(caller)
  /\ role # "NONE"
  /\ roles' = [roles EXCEPT ![account] = role]
  /\ executed' = executed \union running
  /\ UNCHANGED <<timelockDelay, queued, cancelled, now>>

RevokeRole(caller, account, running) ==
  /\ IsAdmin(caller)
  /\ roles' = [roles EXCEPT ![account] = "NONE"]
  /\ executed' = executed \union running
  /\ UNCHANGED <<timelockDelay, queued, cancelled, now>>

(* Mutant: any delay up to the maximum. *)
SetTimelockDelay_NoMinimum(caller, newDelay, running) ==
  /\ IsAdmin(caller)
  /\ timelockDelay' = IF newDelay > MAX_TIMELOCK THEN MAX_TIMELOCK ELSE newDelay
  /\ executed' = executed \union running
  /\ UNCHANGED <<roles, queued, cancelled, now>>

SetTimelockDelay(caller, newDelay, running) ==
  /\ IsAdmin(caller)
  /\ newDelay >= MIN_TIMELOCK
  /\ timelockDelay' = IF newDelay > MAX_TIMELOCK THEN MAX_TIMELOCK ELSE newDelay
  /\ executed' = executed \union running
  /\ UNCHANGED <<roles, queued, cancelled, now>>

(* A target outside the controller may do anything but change the          *)
(* controller's state, unless it is an account with a role: such calls are *)
(* steps of that account, since the flag is set before the call.           *)
ExternalCall(running) ==
  /\ executed' = executed \union running
  /\ UNCHANGED <<roles, timelockDelay, queued, cancelled, now>>

PlainCall(caller, call, running) ==
  \/ call.op = "grantRole" /\ GrantRole(caller, call.to[1], call.to[2], running)
  \/ call.op = "revokeRole" /\ RevokeRole(caller, call.to, running)
  \/ call.op = "setTimelockDelay" /\ SetTimelockDelay(caller, call.to, running)
  \/ call.op = "external" /\ ExternalCall(running)

(* Mutant: the id leaves out the time of queueing. *)
NewId_NoTime(call) ==
  [call |-> call, executeAfter |-> now + timelockDelay, queuedAt |-> 0]

NewId(call) ==
  [call |-> call, executeAfter |-> now + timelockDelay, queuedAt |-> now]

(* The entry is written anew even if the id has one already. *)
QueueAction(caller, call, running) ==
  LET id == NewId(call)
  IN /\ IsAdmin(caller)
     /\ Cardinality(queued) < MaxQueued \/ id \in queued
     /\ queued' = queued \union {id}
     /\ executed' = (executed \union running) \ {id}
     /\ cancelled' = cancelled \ {id}
     /\ UNCHANGED <<roles, timelockDelay, now>>

(* Mutant: no expiry. *)
IsReady_NoExpiry(id) ==
  /\ id \in queued
  /\ id \notin executed
  /\ id \notin cancelled
  /\ now >= id.executeAfter

IsReady(id) ==
  /\ id \in queued
  /\ id \notin executed
  /\ id \notin cancelled
  /\ now >= id.executeAfter
  /\ now <= id.executeAfter + ACTION_EXPIRY

CancelAction(caller, id, running) ==
  /\ IsGuardian(caller)
  /\ id \in queued
  /\ id \notin executed \union running
  /\ cancelled' = cancelled \union {id}
  /\ executed' = executed \union running
  /\ UNCHANGED <<roles, timelockDelay, queued, now>>

(* executeAction of an action that is a plain call. *)
ExecutePlain(caller, id, running) ==
  /\ IsAdmin(caller)
  /\ id \notin running
  /\ IsReady(id)
  /\ PlainCall(Controller, id.call, running \union {id})

(* executeAction: the controller calls the target, itself perhaps. *)
ExecuteAction(caller, id) ==
  /\ IsAdmin(caller)
  /\ IsReady(id)
  /\ LET call == id.call
     IN \/ PlainCall(Controller, call, {id})
        \/ call.op = "queueAction" /\ QueueAction(Controller, call.to, {id})
        \/ call.op = "cancelAction" /\ CancelAction(Controller, call.to, {id})
        \/ call.op = "executeAction" /\ ExecutePlain(Controller, call.to, {id})

(* The next block, at a later time. *)
NextBlock ==
  /\ now < MaxTime
  /\ \E later \in now + 1 .. MaxTime : now' = later
  /\ UNCHANGED <<roles, timelockDelay, actionVars>>

(* What an admin may queue: a plain call, or one about a plain action      *)
(* queued before.                                                          *)
Queueable ==
  PlainCalls
    \union [op : {"queueAction"}, to : PlainCalls]
    \union [op : {"executeAction", "cancelAction"}, to : queued \intersect PlainIds]

Next ==
  \/ \E caller \in Accounts :
       \/ \E grant \in RoleGrants : GrantRole(caller, grant[1], grant[2], {})
       \/ \E account \in Holders : RevokeRole(caller, account, {})
       \/ \E newDelay \in Delays : SetTimelockDelay(caller, newDelay, {})
       \/ \E call \in Queueable : QueueAction(caller, call, {})
       \/ \E id \in queued : ExecuteAction(caller, id) \/ CancelAction(caller, id, {})
  \/ NextBlock

Spec == Init /\ [][Next]_vars
-----------------------------------------------------------------------------
TypeOK ==
  /\ roles \in [Holders -> Roles]
  /\ timelockDelay \in Nat
  /\ queued \subseteq Ids
  /\ executed \subseteq queued
  /\ cancelled \subseteq queued
  /\ now \in Nat

(* No action is both executed and cancelled, also when the cancellation is *)
(* itself an action: a cancelled action's call was never made.             *)
NeverBoth == executed \intersect cancelled = {}

(* The flag executed is never taken back, although queueing writes the     *)
(* entry anew: no action is executed twice.                                *)
ExecutedIsFinal == [][executed \subseteq executed']_vars

(* A cancelled action never runs once the block in which it was queued is  *)
(* over.  In that block, queueing the same call again revives the entry.   *)
CancelledIsFinal ==
  [][\A id \in cancelled : id.queuedAt < now => id \in cancelled' /\ id \notin executed']_vars

(* Whatever was done to the delay since, and however deep the call, an     *)
(* action runs at least MIN_TIMELOCK after it was queued and at most       *)
(* ACTION_EXPIRY after it became ready.                                    *)
TimelockRespected ==
  [][\A id \in executed' \ executed :
       /\ now >= id.queuedAt + MIN_TIMELOCK
       /\ now <= id.executeAfter + ACTION_EXPIRY]_vars
=============================================================================
