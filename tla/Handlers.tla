----------------------------- MODULE Handlers -----------------------------
(***************************************************************************)
(* The API handlers that fill the guest's buffers, order a driver's runs   *)
(* and call the guest's functions.  They share no state.                   *)
(***************************************************************************)
EXTENDS Integers, Sequences

CONSTANTS MaxText,    \* bound on the length of a text
          MaxBuffer,  \* bound on the room of a buffer
          MAX_PATH    \* size of the buffer of the path functions
CONSTANTS IrpOrder, MaxExports, max_runs, MaxThreads, MaxDevices, DeviceNames, LinkNames, MaxPool, KernelProcesses  \* Kernel
CONSTANTS MaxFunctions, MaxArrays, FirstRoom, MaxCalls, Initializers, MaxInstalls                             \* Crt

ASSUME BufferAssumption == MaxText \in Nat /\ MaxBuffer \in Nat /\ MAX_PATH \in Nat \ {0}

ASSUME KernelAssumption == IrpOrder \in Seq(STRING) /\ MaxExports \in Nat

\* A new table has room.
ASSUME CrtAssumption == MaxArrays \in Nat /\ FirstRoom \in Nat \ {0}

VARIABLES text, told, buf_res                                              \* Buffers
VARIABLES sched, drv, objs, cpu, pool, kernel_res                          \* Kernel
VARIABLES tab, arrays, crt_frames, ran, crt_hist, signals, invalid, blocks, count, crt_ended, crt_res  \* Crt

B == INSTANCE Buffers WITH MaxRoom <- MaxBuffer, res <- buf_res

K == INSTANCE Kernel WITH Processes <- KernelProcesses, res <- kernel_res

M == INSTANCE Crt WITH MaxFrames <- MaxCalls, MaxElements <- 5, MaxBlocks <- 3, MaxCount <- 3,
                       frames <- crt_frames, hist <- crt_hist, ended <- crt_ended, res <- crt_res
=============================================================================
