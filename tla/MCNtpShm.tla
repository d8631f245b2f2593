------------------------------ MODULE MCNtpShm ------------------------------
(* NtpShm needs no further definitions: its bounds are in the cfgs. *)
EXTENDS NtpShm
=============================================================================
