------------------------------- MODULE MCBody -------------------------------
(* The answers of the run of Body. *)
EXTENDS Body

Asked == << <<"q", 1>>, <<"q", 2>> >>
OggS == << <<"O">>, <<"S">> >>

Text(n) == [i \in 1 .. n |-> <<"h", i>>]
LineEnds(n) == [i \in 1 .. n |-> <<"n", i>>]

\* A status line and a field; the shortest headers; line ends that are not in pairs;
\* headers that fill the buffer exactly, and that do not fit.
Fields == Text(1) \o LineEnds(2) \o Text(1) \o LineEnds(4)
Short == Text(1) \o LineEnds(4)
Unpaired == Text(1) \o LineEnds(1) \o Text(1) \o LineEnds(2)
Exact == Text(HeaderMax - 4) \o LineEnds(4)
Long == Text(HeaderMax) \o LineEnds(4)

Plain(head, tls) == [head |-> head, tls |-> tls, cont |-> FALSE, ogg |-> FALSE, pages |-> << >>,
                     audio |-> 3, interval |-> 0, blocks |-> << >>]
Icy(interval, audio, blocks) ==
    [Plain(Short, FALSE) EXCEPT !.cont = TRUE, !.audio = audio, !.interval = interval,
                                !.blocks = blocks]
Ogg(wait, pages) == [Plain(Short, FALSE) EXCEPT !.cont = wait, !.ogg = TRUE, !.pages = pages]

Page(id, kind, serial, bos, granule, segs) ==
    [id |-> id, kind |-> kind, serial |-> serial, bos |-> bos, granule |-> granule, segs |-> segs]

\* Two streams in a chain; an OggFlac stream.
Chain == << Page(1, "id", "a", TRUE, FALSE, <<1>>), Page(2, "comment", "a", FALSE, FALSE, <<1, 1>>),
            Page(3, "audio", "a", FALSE, TRUE, <<1>>),
            Page(4, "id", "b", TRUE, FALSE, <<1>>), Page(5, "comment", "b", FALSE, FALSE, <<1>>) >>
Flac == << Page(1, "flacid", "a", TRUE, FALSE, <<1>>), Page(2, "comment", "a", FALSE, FALSE, <<2>>),
           Page(3, "audio", "a", FALSE, TRUE, << >>) >>

Every == {Plain(Fields, FALSE), Plain(Short, TRUE), Plain(Unpaired, FALSE), Plain(Exact, FALSE),
          Plain(Long, FALSE),
          Icy(2, 5, <<1, 0>>), Icy(2, 5, <<1, 2>>), Icy(1, 2, <<0, 1>>), Icy(3, 2, << >>), Icy(2, 2, << >>),
          Ogg(FALSE, Chain), Ogg(TRUE, Flac)}
=============================================================================
