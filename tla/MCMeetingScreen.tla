---------------------------- MODULE MCMeetingScreen ----------------------------
\* MeetingScreen on a small instance.
EXTENDS MeetingScreen
=============================================================================
