------------------------------ MODULE MCEditor ------------------------------
EXTENDS Editor

\* Quotes with escapes; comments; jinja and comments in slashes; the quotes
\* of names; words, operators and parentheses.
MCKeyboards ==
  { [chars |-> {"a", "'", "\\", ";", "\n"},                  max |-> 6],
    [chars |-> {"-", "/", "*", ";"},                          max |-> 7],
    [chars |-> {"{", "}", "-", ";"},                          max |-> 6],
    [chars |-> {"a", "\"", "[", "]", BackTick, ".", " "},     max |-> 4],
    [chars |-> {"a", "(", ")", ",", "=", " ", "."},           max |-> 4] }
\* A schema that can be typed stands for the hidden ones.
MCInternal == {<<"a", "a">>}
=============================================================================
