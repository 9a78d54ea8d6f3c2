------------------------------ MODULE MCDevices ------------------------------
(* Instances of Devices for TLC.                                           *)
EXTENDS Devices

OneDrive == [ports |-> {0}, drives |-> {0}]
Quiet == [keys |-> {}, typing |-> 0, texts |-> {}, reads |-> {}, calls |-> 0, moves |-> {},
          hbas |-> {OneDrive}]

(* A user types lines with corrections while a program reads them.         *)
Typing == [Quiet EXCEPT !.keys = {97, Bs, Nl}, !.typing = 4, !.reads = {0, 1, 3}, !.calls = 3]

(* Programs print text and control sequences; the user presses a key, also *)
(* in the middle of a sequence.                                            *)
Text == <<97, Nl, 98, Tab, 99, Cr, Bs, 100>>
Climb == <<Esc, 91, 65, Esc, 91, 66, 97>>
Jump == <<Esc, 91, 50, 59, 57, 72, 97, 98, Esc, 91, 49, 75>>
Clear == <<Esc, 91, 50, 74, Esc, 91, 67, Esc, 91, 68, Esc, 91, 75>>
Colours == <<Esc, 91, 51, 56, 59, 53, 59, 50, 48, 109, Esc, 91, 49, 109>>
Odd == <<Esc, 97, Esc, 91, 32, 0, Esc, 91, 120>>
Printing == [Quiet EXCEPT !.keys = {Esc, 98}, !.typing = 1, !.calls = 1,
                          !.texts = {Text, Text \o Climb, Climb \o Jump, Jump \o Clear, Colours, Odd,
                                     <<>>, <<200>>}]

(* Transfers that start and end inside a sector, fill one, span two pages; *)
(* a drive on the first port, behind a gap, behind an empty port, none.    *)
Storing == [Quiet EXCEPT !.calls = 2,
              !.moves = {[op |-> "write", pos |-> 1, len |-> 5], [op |-> "write", pos |-> 0, len |-> 2],
                         [op |-> "read", pos |-> 1, len |-> 4]},
              !.hbas = {OneDrive, [ports |-> {0, 2}, drives |-> {2}],
                        [ports |-> {0, 1}, drives |-> {1}], [ports |-> {0, 1}, drives |-> {}]}]

(* Everything at once, in short.                                           *)
Mixed == [Quiet EXCEPT !.keys = {97, Nl}, !.typing = 2, !.texts = {<<Esc, 91, 66, Nl, 97>>}, !.reads = {2},
                       !.calls = 2, !.moves = {[op |-> "write", pos |-> 1, len |-> 3]}]

(* One transfer after the other, until every slot is taken or no page left. *)
Repeating == [Quiet EXCEPT !.calls = 5, !.moves = {[op |-> "write", pos |-> 0, len |-> 2]}]

MCLoads == {Typing, Printing, Storing, Mixed, Repeating}
=============================================================================
