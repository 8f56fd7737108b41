------------------------ MODULE MCHeuristicDetector ------------------------
(* An instance of HeuristicDetector for TLC: packets that reach each        *)
(* window, the brute-force counter of two hosts, and a score of 3 alone.    *)
EXTENDS HeuristicDetector

CONSTANTS s1, s2, s3, h1, h2

MCSources == {s1, s2, s3}
MCHosts == {h1, h2}
MCWidth == [burst |-> 2, sweep |-> 4, syn |-> 2]
MCThreshold == [burst |-> 3, sweep |-> 2, syn |-> 2]

Packet(src, dst, port, size, syn) ==
    [src |-> src, dst |-> dst, port |-> port, size |-> size, syn |-> syn]

MCPackets ==
    {Packet(s1, h1, 22, 60, TRUE), Packet(s1, h1, 99, 60, FALSE), Packet(s1, h2, 22, 60, FALSE),
     Packet(s2, h1, 22, 39, TRUE), Packet(s3, h1, NoPort, 39, FALSE)}
============================================================================
