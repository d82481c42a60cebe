------------------------------ MODULE MCServices ------------------------------
(* Two back-offs, none and one unit of the clock; what migrations 2 to 7 of  *)
(* the repository add (where one adds two columns, the first).               *)
EXTENDS Services

ShortBackoff(n) == IF n <= 1 THEN 0 ELSE 1
Additions == <<"tags", "rate_control", "source", "skip_bitrate_unit", "deleted_at",
               "audio_bitrates_by_channels">>

=============================================================================
