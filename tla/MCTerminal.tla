----------------------------- MODULE MCTerminal -----------------------------
EXTENDS Terminal

MCBindings ==
    [s \in {<<"g", "g">>, <<"j">>, <<"i">>, <<":">>, <<"/">>, <<"q">>, <<"esc">>, <<"enter">>} |->
        CASE s = <<"g", "g">> -> "first"
          [] s = <<"j">> -> "down"
          [] s = <<"i">> -> "insert"
          [] s = <<":">> -> "command"
          [] s = <<"/">> -> "search"
          [] s = <<"q">> -> "quit"
          [] s = <<"esc">> -> "back"
          [] s = <<"enter">> -> "open"]

(* A keymap that begins with a digit, which is no count then.              *)
MCKeymaps == [name \in {"first"} |-> <<"3", "j">>]

MCDigitValue == [d \in {"2", "3"} |-> IF d = "2" THEN 2 ELSE 3]

(* Two names that part after the second key.                               *)
MCCompletions == {<<"j", "j", "q">>, <<"j", "j", "j">>}

MCStartup == {<<"j">>}
=============================================================================
