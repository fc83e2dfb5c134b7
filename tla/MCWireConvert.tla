--------------------------- MODULE MCWireConvert ---------------------------
(***************************************************************************)
(* Bounds for WireConvert.  Second = 4 scaled nanoseconds, uint32 wraps at *)
(* 8 and uint64 at 32, keeping Second <= 2^32 <= 2^64 as in Go.            *)
(* Durations cover zero, a mixed second-and-nanoseconds value, and the    *)
(* negative values a time.Duration can hold, above and below -1 second.   *)
(*                                                                         *)
(* INIT: majors below, at and above 7; minors below 26, at 26, 36, 41 and *)
(* above 41; a kernel readahead below and above the default; kernel flags *)
(* mixing supported and unsupported capabilities; MaxBackground at its    *)
(* default (0), at 12, and above 21845, where 3*MaxBackground leaves      *)
(* uint16.                                                                 *)
(*                                                                         *)
(* BATCH_FORGET: Count 0 to 3 against bodies of up to two whole records, *)
(* with and without a trailing partial record, and bodies shorter than   *)
(* BatchForgetIn, so Count meets bodies longer, equal and shorter.       *)
(***************************************************************************)
EXTENDS WireConvert

MCPerms == {0, 493}                      \* 0 and 0755
MCDurations == {-5, -1, 0, 5}
MCErrnos == {2, 13}
MCErrnosWithZero == {0, 2}
MCMajors == {6, 7, 8}
MCMinors == {25, 26, 36, 41, 42}
MCReadaheads == {65536, 262144}
MCKernelCaps == {"AsyncRead", "Readdirplus", "MaxPages", "WritebackCache", "PosixLocks"}
MCBackgrounds == {0, 12, 40000}
MCForgetCounts == 0..3
MCForgetNodes == {2, 3}
====
