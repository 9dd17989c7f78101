------------------------------ MODULE MCSandbox ------------------------------
(* A small machine, and places to start the program in. *)
EXTENDS Sandbox

Home == <<"home", "u">>

MCDirs ==
  {<<>>, <<"usr">>, <<"tmp">>, Scratch, <<"dev">>, <<"home">>, Home,
   Home \o <<".ssh">>, Home \o <<"proj">>, Home \o <<".config">>,
   <<"private">>, <<"private", "tmp">>, MacScratch, <<"tmp", "u">>,
   <<"tmp", "u", ".ssh">>, <<"usr", "aws">>, Scratch \o <<".ssh">>, Home \o <<"Library">>,
   Home \o <<"Library", "Keychains">>}

MCFiles ==
  {<<"usr", "R">>, <<"usr", "aws", "key">>, <<"tmp", "raoui-sandbox", "x">>, DevNull,
   Home \o <<".ssh", "id">>, Home \o <<"data">>, Home \o <<"proj", "data">>,
   Home \o <<".config", "f">>, <<"tmp", "u", ".ssh", "id">>,
   <<"tmp", "u", "data">>, Scratch \o <<".ssh", "id">>,
   Home \o <<"Library", "Keychains", "db">>}

(* A merged /usr, homes and a library that are given by a link, a store    *)
(* that is kept elsewhere, and a home with a link to everything.           *)
MCLeads ==
  [p \in {<<"bin">>, <<"h">>, <<"lib">>, Home \o <<".aws">>,
          <<"tmp", "u", "all">>} |->
     CASE p = <<"bin">> -> <<"usr">>
       [] p = <<"lib">> -> <<"usr">>
       [] p = <<"h">> -> Home
       [] p = Home \o <<".aws">> -> <<"usr", "aws">>
       [] p = <<"tmp", "u", "all">> -> <<>>]

Linux(home, paths, abi) ==
  [platform |-> "linux", home |-> home, dyn |-> paths, abi |-> abi]
Mac(home, paths) ==
  [platform |-> "macos", home |-> home, dyn |-> paths, abi |-> 0]

MCSetting ==
  {Linux(Home, {<<"usr">>, Home}, 4),
   Linux(Home, {Home \o <<"proj">>}, 2),
   Linux(Home, {<<"home">>}, 4),
   Linux(Home, {<<>>}, 4),
   Linux(Home, {Home \o <<".config">>}, 4),
   Linux(<<"tmp", "u">>, {<<"tmp", "u">>}, 4),
   Linux(Scratch, {<<"usr">>}, 4),
   Linux(<<"h">>, {<<"h">>, <<"lib">>}, 3),
   Linux(NoHome, {<<"usr">>}, 1),
   Linux(Home, {Home}, 0),
   Mac(Home, {Home}),
   Mac(Home, {<<>>}),
   Mac(<<"h">>, {Home, <<"lib">>}),
   [platform |-> "other", home |-> Home, dyn |-> {Home}, abi |-> 0]}

=============================================================================
