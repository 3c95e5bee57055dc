-------------------------- MODULE MCHammerCommands --------------------------
(* HammerCommands for every class of robottelo/cli/.  Three of them are      *)
(* also used through copies and wrappers, and inside of with statements: one *)
(* relaxes command_requires_org, one assigns command_base, and one is an     *)
(* attribute of another class.                                               *)
EXTENDS HammerCommands, CliClasses

ClassNames == DOMAIN Classes
RoamingNames == {"Repository", "TemplateSync", "ContentViewFilterRule"}
=============================================================================
