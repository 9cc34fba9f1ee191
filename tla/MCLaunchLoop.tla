---------------------------- MODULE MCLaunchLoop ----------------------------
EXTENDS LaunchLoop, TLC
=============================================================================
