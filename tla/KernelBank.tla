------------------------------ MODULE KernelBank ------------------------------
(***************************************************************************)
(* Which kernels a process has (KernelBank::try_new and global_bank in     *)
(* src/custom_kernels.rs).  Of a function list only the kernels that the   *)
(* packed layers launch are kept; the modules mixer and recurse are loaded *)
(* and never launched.                                                     *)
(***************************************************************************)
EXTENDS Integers

(* The PTX of a build: compiled by nvcc, or a stub; omega and activations   *)
(* then fall back to a vendored file, which has fewer activations.  A       *)
(* module loads only if every listed function is in it.                     *)
Ptx == {"compiled", "stub", "broken"}

Gemm        == {"ternary_matmul_stack"}
Activations == {"swiglu_fused", "bias_add", "layer_norm", "ewise_add_inplace"}
ActSubset   == {"swiglu_fused", "bias_add", "layer_norm"}
Attention   == {"apply_rope", "transpose_bshd_to_bhsd", "transpose_bhsd_to_bsd",
                "fused_attention"}
Unavailable == {"no bank"}

(* try_new fails without a device or without the ternary kernels; every     *)
(* other module is optional.                                                *)
TryNew(device, omega, activations, attention) ==
  IF ~ device \/ omega = "broken" THEN Unavailable
  ELSE UNION {Gemm,
              IF activations = "compiled" THEN Activations
              ELSE IF activations = "stub" THEN ActSubset ELSE {},
              IF attention = "compiled" THEN Attention ELSE {}}

Banks == {TryNew(d, o, a, t) : d \in BOOLEAN, o \in Ptx, a \in Ptx, t \in Ptx}
=============================================================================
