----------------------------- MODULE NativeABI ------------------------------
(***************************************************************************)
(* What Go and C agree on by number, each with declarations of its own:    *)
(* modes, back ends and statuses; and what the Go API makes of a status    *)
(* that is not OK.  A status is named here as in jitjson.h, without its    *)
(* prefix.                                                                 *)
(***************************************************************************)

(* model.go                                                                *)
ModeAuto   == 0
ModeScalar == 1
ModeAVX2   == 2

BackendJIT    == 0
BackendStatic == 1

(* jitjson.h                                                               *)
MODE_AUTO   == 0
MODE_SCALAR == 1
MODE_AVX2   == 2

BACKEND_JIT    == 0
BACKEND_STATIC == 1

Status ==
  {"OK", "INVALID_ARGUMENT", "NO_SPACE", "UNSUPPORTED_CPU", "JIT_ALLOC",
   "JIT_PROTECT", "INTERNAL"}

(* statusError and mapNativeError                                          *)
MapNativeError(status) ==
  IF status = "UNSUPPORTED_CPU" THEN "ErrUnsupportedCPU" ELSE "ErrNative"
=============================================================================
