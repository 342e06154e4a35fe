---------------------------- MODULE MCMessaging ----------------------------
(* Values for model checking Messaging.                                    *)
EXTENDS Messaging, TLC

CONSTANTS ann, bob, talk, hello, odd, scam, photo

MCMembers == [c \in Conversations |-> Users]

\* The order of the seeded rules: warn before block.
MCRules == <<[matches |-> {odd}, action |-> "warn"], [matches |-> {odd, scam}, action |-> "block"]>>

MCPosts ==
  {[by |-> ann, conv |-> talk, body |-> hello, file |-> photo],
   [by |-> bob, conv |-> talk, body |-> odd, file |-> photo],
   [by |-> ann, conv |-> talk, body |-> hello, file |-> None],
   [by |-> ann, conv |-> talk, body |-> scam, file |-> None]}
=============================================================================
