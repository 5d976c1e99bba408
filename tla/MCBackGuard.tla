---------------------------- MODULE MCBackGuard ----------------------------
(* Small instances of BackGuard: the headline flow, which has the guarded  *)
(* form, and the activity flow, which has the image browser.               *)
EXTENDS BackGuard

MCRoots == {"HeadlineSelect", "HeadlineForm", "ActivitysSignUpManagement", "ActivityDetail"}
HeadlineRoot == {"HeadlineIndex"}
FormRoot     == {"HeadlineForm"}
=============================================================================
