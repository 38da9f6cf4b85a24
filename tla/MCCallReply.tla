---------------------------- MODULE MCCallReply ----------------------------
EXTENDS CallReply
=============================================================================
