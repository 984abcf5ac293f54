------------------------------- MODULE AesApi -------------------------------
(***************************************************************************)
(* What the compartmentalised library promises the program that links the  *)
(* stub: a call has the effect of the native call, in one step, as long as *)
(* the compartment is up.  Two exceptions are part of the promise as the   *)
(* code keeps it: AES_init_ctx returns an arbitrary IV, and once the       *)
(* compartment has died a call may return as if it had succeeded, having   *)
(* done nothing, or having updated the context only.                       *)
(***************************************************************************)
EXTENDS AesLib

VARIABLES
  at,     \* where the program is: "idle", "called", "returned" or "gone"
  ctx,    \* its struct AES_ctx
  buf,    \* its buffer
  call,   \* the call in progress
  up      \* the compartment is alive

vars == <<at, ctx, buf, call, up>>

Init ==
  /\ at = "idle" /\ ctx \in Ctx /\ buf = <<>> /\ call = NoCall /\ up = TRUE

Invoke ==
  /\ at = "idle" /\ at' = "called"
  /\ call' \in Call
  /\ call'.ctx = ctx
  /\ buf' = call'.buf
  /\ UNCHANGED <<ctx, up>>

Result ==
  /\ buf' = NativeBuf(call)
  /\ \/ ctx' = NativeCtx(call)
     \/ /\ call.type = "INIT"
        /\ ctx' \in Ctx /\ ctx'.RoundKey = NativeCtx(call).RoundKey

\* Never half a buffer, and never a new buffer with the old context.
FailedResult ==
  \/ call.type \in {"INIT", "INIT_IV"} /\ ctx' \in Ctx /\ buf' = buf
  \/ call.type \in {"SET_IV", "CRYPT"} /\ ctx' \in {call.ctx, NativeCtx(call)} /\ buf' = buf

Return ==
  /\ at = "called" /\ at' = "returned"
  /\ Result \/ (~up /\ FailedResult)
  /\ UNCHANGED <<call, up>>

Resume ==
  /\ at = "returned" /\ at' = "idle"
  /\ call' = NoCall /\ buf' = <<>>
  /\ UNCHANGED <<ctx, up>>

Fail == up /\ up' = FALSE /\ UNCHANGED <<at, ctx, buf, call>>

\* What a dead process's memory holds does not matter.
End == at # "gone" /\ at' = "gone" /\ ctx' \in Ctx /\ UNCHANGED <<buf, call, up>>

Next == Invoke \/ Return \/ Resume \/ Fail \/ End

Spec == Init /\ [][Next]_vars
=============================================================================
