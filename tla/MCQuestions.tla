----------------------------- MODULE MCQuestions -----------------------------
(***************************************************************************)
(* Instances of Questions for TLC: two members on the screen of one        *)
(* community, and another community with questions of its own.             *)
(***************************************************************************)
EXTENDS Questions, TLC

CONSTANTS ann, bob, home, away

MCMembers == {ann, bob}

MCCommunities == {home, away}

MCAt == ann :> home @@ bob :> home

\* A question of the other community.
MCEarlier == [id : {Min(QuestionIds)}, title : Titles, com : {away}, by : {ann}, late : {FALSE}]

MCMaxLoads == ann :> 1 @@ bob :> 2
=============================================================================
