----------------------------- MODULE MCCodecs -----------------------------
(* Layouts for Codecs. Lengths are in units of four bytes where headers of  *)
(* the formats are concerned; a frame, a sample or a block has a few.       *)
EXTENDS Codecs, TLC

Common == [buf |-> 9, cut |-> FALSE, bad |-> FALSE, stale |-> 0, head |-> 0, mod |-> 1]

PcmFile(par, bpf, head, limit, audio, rest) ==
    [kind |-> "pcm", par |-> par, bpf |-> bpf, mod |-> par, head |-> head,
     fmt |-> head, limit |-> limit, audio |-> audio, check |-> head > 0,
     local |-> FALSE, aiff |-> FALSE, len |-> head + audio + rest] @@ Common

PcmFiles == {PcmFile(3, 3, 0, FALSE, n, 0) : n \in 14 .. 20}
            \cup {[PcmFile(p, 3, 4, l, n, 2) EXCEPT !.stale = z] :
                     p \in 2 .. 3, l \in BOOLEAN, n \in 14 .. 20, z \in {0, 2, 4}}
            \cup {[PcmFile(3, 3, 4, TRUE, n, 1) EXCEPT
                     !.aiff = a, !.local = l, !.check = ~l] :
                     n \in {3, 12, 14}, a \in BOOLEAN, l \in BOOLEAN}

\* Atoms or chunks one after the other: their names and sizes.
RECURSIVE SumTo(_, _)
SumTo(sizes, k) == IF k = 0 THEN 0 ELSE sizes[k] + SumTo(sizes, k - 1)

Laid(names, sizes) ==
    [k \in DOMAIN sizes |-> [name |-> names[k], size |-> sizes[k],
                             at |-> SumTo(sizes, k - 1)]]

\* Samples of the given sizes behind gaps of the given sizes.
Samples(from, gaps, sizes) ==
    [k \in DOMAIN sizes |-> [size |-> sizes[k],
                             at |-> from + SumTo(gaps, k) + SumTo(sizes, k - 1)]]

Mp4File(kind, names, sizes, gaps, samples, chunks) ==
    LET from == SumTo(sizes, Len(sizes))
        s    == Samples(from, gaps, samples)
    IN  [kind |-> kind, atoms |-> Laid(names, sizes), samples |-> s,
         chunks |-> [i \in DOMAIN chunks |->
                       [at |-> s[chunks[i] + 1].at, before |-> chunks[i]]],
         len |-> s[Len(s)].at + s[Len(s)].size, buf |-> 19, fixed |-> FALSE] @@ Common

AlacNames == <<"moov", "trak", "config", "stsz", "stsc", "stco", "free", "mdat">>
AacNames  == <<"moov", "trak", "config", "stsc", "stco", "free", "mdat">>

\* The box before the media shifts it against the wrap; a gap may be in front.
Mp4Files ==
    {Mp4File("alac", AlacNames, <<2, 2, 3, 3, 3, 3, n, 2>>, <<g, 0, 2, 0, 3>>,
             <<2, 3, 2, 2, 3>>, <<0, 2, 4>>) : n \in {4, 7, 8, 11}, g \in {0, 4}}
    \cup
    {LET f == Mp4File("alac", AlacNames, <<2, 2, 3, 3, 3, 3, 4, 2>>, <<g, 0, 1, 0, 3>>,
                      <<2, 2, 2, 2, 2>>, <<0, 2, 4>>)
     IN  [f EXCEPT !.fixed = TRUE, !.len = @ + r] : g \in {0, 4}, r \in 0 .. 2}
    \cup
    {[Mp4File("faad", AacNames, <<2, 2, 3, 3, 3, n, 2>>, <<g, 0, 2, 0, 3>>,
             <<2, 3, 2, 2, 3>>, <<0, 2, 4>>) EXCEPT !.stale = z] :
                                n \in {4, 7, 8, 11}, g \in {0, 4}, z \in {0, 1}}
    \cup
    {[kind |-> "adts", samples |-> Samples(0, <<n, 0, 0, 0, 0>>, <<2, 3, 2, 3, 2>>),
      atoms |-> << >>, chunks |-> << >>, fixed |-> FALSE, len |-> n + 12] @@ Common : n \in 0 .. 8}

DsdFile(kind, names, sizes, bpf, block, channels, audio, units, len) ==
    [kind |-> kind, atoms |-> Laid(names, sizes), head |-> SumTo(sizes, Len(sizes)),
     bpf |-> bpf, block |-> block, channels |-> channels, audio |-> audio,
     units |-> units, len |-> len] @@ Common

DsdFiles ==
    {DsdFile("dsf", <<"DSD", "fmt", "audio">>, <<2, 2, 1>>, 1, 2, 2, 6, 3, 5 + 12),
     DsdFile("dsf", <<"DSD", "fmt", "audio">>, <<2, 2, 1>>, 1, 2, 3, 4, 2, 5 + 12),
     DsdFile("dsf", <<"DSD", "fmt", "audio">>, <<2, 2, 1>>, 1, 2, 2, 9, 3, 5 + 12)}
    \cup
    {DsdFile("dff", <<"FRM8", "PROP", "audio">>, <<2, n, 1>>, 3, 1, 2, 12, 4, 3 + n + 12 + r) :
        n \in {2, 3, 5, 10}, r \in {0, 2}}

LibFile(kind, head, gaps, sizes, packet) ==
    LET s == Samples(0, gaps, sizes)
    IN  [kind |-> kind, head |-> head, samples |-> s, packet |-> packet,
         len |-> s[Len(s)].at + s[Len(s)].size] @@ Common

LibFiles == {LibFile("mad", n, <<n, 0, 0, 0, 0>>, <<2, 3, 2, 3, 2>>, 0) : n \in 2 .. 12}
            \cup {LibFile(k, n, <<n, 0, 0, 0, 0>>, <<2, 3, 2, 3, 2>>, 0) :
                     k \in {"mpg", "flac", "vorbis", "opus", "ffmpeg"}, n \in 1 .. 4}
            \cup {LibFile("wma", 0, <<3, 3, 3, 3>>, <<n, 3, 2, 3>>, 3) : n \in 1 .. 3}

\* A table of atoms that is longer than streambuf, whose last atoms wrap.
WrapFiles == {[f EXCEPT !.buf = 9] : f \in {g \in Mp4Files : g.len < 40 /\ g.stale = 0}}

\* A stream after one of which a chunk was still being passed over.
StaleFiles == {[f EXCEPT !.stale = 1] : f \in {g \in DsdFiles : g.kind = "dff"}}

WholeFiles == PcmFiles \cup Mp4Files \cup DsdFiles \cup LibFiles

Cut == {[f EXCEPT !.cut = TRUE] : f \in WholeFiles}
Bad == {[f EXCEPT !.bad = TRUE] : f \in LibFiles}

MCFiles == WholeFiles \cup Cut \cup Bad \cup WrapFiles \cup StaleFiles

=============================================================================
