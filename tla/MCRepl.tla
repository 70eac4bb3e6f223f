------------------------------- MODULE MCRepl -------------------------------
(* A terminal with three characters, one of them a wide one of three bytes. *)
EXTENDS Repl

a    == <<97>>
wide == <<228, 184, 173>>      \* U+4E2D

MCBytes == [c \in {"a", "blank", "wide"} |->
              CASE c = "a" -> a [] c = "blank" -> <<32>> [] c = "wide" -> wide]

MCEncoding ==
  [ k \in {"LEFT", "RIGHT", "HOME", "END", "WORD_LEFT", "WORD_RIGHT",
           "UP", "DOWN", "PGUP", "PGDN", "BACKSPACE", "DELETE", "KILL_END", "KILL_ALL",
           "KILL_WORD", "YANK", "TRANSPOSE", "CLEAR", "TAB", "ESC", "CTRL_D", "CTRL_C",
           "ENTER", "EOF"} |->
    CASE k = "LEFT"  -> {<<27, 91, 68>>, <<27, 79, 68>>, <<2>>}
      [] k = "RIGHT" -> {<<27, 91, 67>>, <<6>>}
      [] k = "HOME"  -> {<<27, 91, 72>>, <<27, 91, 49, 126>>}
      [] k = "END"   -> {<<27, 91, 52, 126>>, <<5>>}
      [] k = "WORD_LEFT"  -> {<<27, 91, 49, 59, 53, 68>>, <<27, 91, 49, 59, 50, 68>>}
      [] k = "WORD_RIGHT" -> {<<27, 91, 49, 59, 53, 67>>}
      [] k = "UP"    -> {<<27, 91, 65>>, <<27, 91, 49, 59, 50, 65>>}
      [] k = "DOWN"  -> {<<27, 91, 66>>, <<14>>}
      [] k = "PGUP"  -> {<<27, 91, 53, 126>>}
      [] k = "PGDN"  -> {<<27, 91, 54, 126>>}
      [] k = "BACKSPACE" -> {<<127>>}
      [] k = "DELETE"    -> {<<27, 91, 51, 126>>}
      [] k = "KILL_END"  -> {<<11>>}
      [] k = "KILL_ALL"  -> {<<21>>}
      [] k = "KILL_WORD" -> {<<23>>}
      [] k = "YANK"      -> {<<25>>}
      [] k = "TRANSPOSE" -> {<<20>>}
      [] k = "CLEAR"     -> {<<12>>}
      [] k = "TAB"       -> {<<9>>}
      [] k = "ESC"       -> {<<27>>, <<27, 91>>}
      [] k = "CTRL_D"    -> {<<4>>}
      [] k = "CTRL_C"    -> {<<3>>}
      [] k = "ENTER"     -> {<<13>>}
      [] k = "EOF"       -> {<< >>} ]

\* One key at a time, and a few typed fast.
MCBursts == {<<k>> : k \in DOMAIN MCBytes \cup DOMAIN MCEncoding}
            \cup {<<"LEFT", "wide">>, <<"wide", "BACKSPACE">>, <<"a", "ENTER", "a">>,
                  <<"HOME", "DELETE">>, <<"WORD_LEFT", "a">>, <<"UP", "YANK">>}

MCExitLines == {a \o a}
MCPasts     == {<< >>, <<a>>, <<wide, a, wide \o a>>}
=============================================================================
