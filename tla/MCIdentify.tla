----------------------------- MODULE MCIdentify -----------------------------
(* A launch of four processes, and for each source files that are missing, *)
(* broken, about another game, about one this game lies below, or right.   *)
EXTENDS Identify

Pe1(lang, name, description) ==
  [lang |-> lang, name |-> name, description |-> description,
   company |-> "studio", product |-> Unset, file |-> "1.0"]

Info(name) == [name |-> name, version |-> "2.0"]

Game(app, dir, title, installed) ==
  [app |-> app, dir |-> dir, title |-> title, installed |-> installed,
   developer |-> "studio", exe |-> "the game's own"]

Row(name, dir, installed) == [name |-> name, dir |-> dir, installed |-> installed]

Here == Home
Near == <<"games", "thisandthat">>

Entry(runs, name) == [runs |-> runs, name |-> name]

MCFiles ==
  [desktop |-> { << >>, <<Entry("other", "another")>>,
                 <<Entry("other", "another"), Entry("this", Unset), Entry("this", "menu")>> },
   pe |-> { [huge |-> FALSE, translations |-> << >>],
            [huge |-> TRUE, translations |-> <<Pe1("en", "binary", Unset)>>],
            [huge |-> FALSE, translations |-> <<Pe1("de", Unset, "another"),
                                                Pe1("en", Blank, "binary")>>],
            [huge |-> FALSE, translations |-> <<Pe1("de", "binary", Unset)>>] },
   gog |-> { << << >>, << >>, << >>, <<Info("another")>> >>,
             << << >>, <<Info(Unset), Info("gog")>>, <<Info("another")>>, << >> >>,
             << << >>, <<Info(Blank), Info("gog")>>, <<Info("another")>>, << >> >> },
   heroic |-> { << >>,
                << <<Game("this", Here, "heroic", FALSE)>>,
                   <<Game("other", Near, "another", TRUE)>> >>,
                << <<Game("other", <<"games">>, "another", TRUE)>>,
                   <<Game("this", Here, "heroic", FALSE)>> >>,
                << <<Game("other", <<"games">>, "another", TRUE)>>, << >>,
                   <<Game("this", Here, "heroic", TRUE)>> >> },
   lutris |-> { << >>,
                <<Row("another", Near, TRUE), Row("lutris", Here, FALSE)>>,
                <<Row("another", <<"games">>, TRUE), Row("lutris", Here, FALSE)>>,
                <<Row("another", <<"games">>, TRUE), Row("Battle.net", Here, TRUE),
                  Row("another", Near, TRUE)>> },
   steam |-> { << >>,
               <<[key |-> "appid", value |-> "7"], [key |-> "name", value |-> "steam"],
                 [key |-> "name", value |-> "another"]>> }]

MCTitles ==
  [desktop |-> {"menu"}, pe |-> {"binary"}, gog |-> {"gog"}, heroic |-> {"heroic"},
   lutris |-> {"Battle.net", "curated name"}, steam |-> {"steam"}]

ASSUME LookupsAreRight == SourcesNameTheirOwn
=============================================================================
