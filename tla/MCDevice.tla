------------------------------ MODULE MCDevice ------------------------------
(* Device for TLC: one device, two sessions, two processes.                *)
EXTENDS Device

MCFiles == {EmptyFile}

MCSituations == {{"hub stops", "answers lost"}, {"updates"}, {"compacts"}}
Compacted == {{"compacts"}}
ResumeLeft == {{"resume left"}}
=============================================================================
