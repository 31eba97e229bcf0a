-------------------------- MODULE MCSoftwareUpdate --------------------------
(* Instances of SoftwareUpdate: two components, one of which the second     *)
(* release ships unchanged.                                                 *)
EXTENDS SoftwareUpdate

MCComponents == <<"frp", "vpnctl">>
MCBuild == [frp |-> <<1, 1, 3>>, vpnctl |-> <<1, 2, 3>>]

Saves == {"begin", "active", "complete", "rb_state"}
Failing == {"quiesce", "resume_only", "prepare", "abort_begin", "activate",
  "publish_bundle", "publish_sums", "resume", "finalize", "promote", "consume",
  "rb_quiesce", "rb_meta", "rb_files", "rb_resume", "rb_abort"}

\* The starts of the controller that nothing retries.
LastStart == {<<"resume_only", "fail">>, <<"rb_resume", "fail">>}

Renaming == {"prepare", "activate", "publish_bundle", "publish_sums", "promote"}
MCFaults ==
  ((Failing \cup Saves) \X {"fail"} \cup Saves \X {"uncertain"} \cup Renaming \X {"sync"})
    \ LastStart
=============================================================================
