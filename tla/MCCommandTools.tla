--------------------------- MODULE MCCommandTools ---------------------------
\* CommandTools with a batch of three commands, at most two at a time, and a
\* single call: every setting of the gate with a sequential batch
\* that stops on errors, and every other kind of batch where nobody is asked.
EXTENDS CommandTools

CONSTANTS x1, batch, d1, d2

Gates == [mode: {"strict", "normal", "off"}, confirmation: {"all", "risk-gated"},
          elicits: {TRUE}, single: {"execute_command"}, perCommand: {TRUE}, parallel: {FALSE}, stop: {TRUE}]
Batches == {g \in [mode: {"off"}, confirmation: {"all"}, elicits: {FALSE},
                   single: {"execute_command", "watch_command"},
                   perCommand: {FALSE}, parallel: BOOLEAN, stop: BOOLEAN] :
              IF g.parallel /\ g.stop THEN g.single = "execute_command"
              ELSE ~g.stop /\ g.single = "watch_command"}
Mute == [mode: {"normal"}, confirmation: {"all"},
         elicits: {FALSE}, single: {"execute_command"}, perCommand: {TRUE}, parallel: {FALSE}, stop: {TRUE}]
Settings == Gates \cup Batches \cup Mute
=============================================================================
