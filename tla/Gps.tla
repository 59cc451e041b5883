--------------------------------- MODULE Gps ---------------------------------
(***************************************************************************)
(* Positions (src/gps.rs, decoder/gps_emit.rs).  They come as nine decimal *)
(* digits DDDMMSSss, as the same with separators, or as two 24-bit numbers *)
(* of hundredths of a second from 10 N 110 E; all are brought to millionths *)
(* of a degree of the Tokyo datum and from there to WGS84.  0 stands for   *)
(* no fix.  Results fit 32 bits for digits 0 to 9, which is what is        *)
(* modelled: a byte below '0' wraps in the release build and is not.       *)
(***************************************************************************)
EXTENDS Integers

Degree == 360000        \* hundredths of a second in a degree
Million == 1000000

\* Defective variant: the origin is subtracted.
DecodeRaw24South(origin, l) ==
    IF l = 0 THEN 0
    ELSE (l \div Degree - origin) * Million + ((l % Degree) * 50 + 9) \div 18

\* Defective variant: the fraction is cut off instead of rounded.
DecodeRaw24Truncated(origin, l) ==
    IF l = 0 THEN 0 ELSE (l \div Degree + origin) * Million + ((l % Degree) * 50) \div 18

\* decode_latitude_24 and decode_longitude_24, which differ in the origin, 10 or 110.
DecodeRaw24(origin, l) ==
    IF l = 0 THEN 0
    ELSE (l \div Degree + origin) * Million + ((l % Degree) * 50 + 9) \div 18

\* decode_degree_bcd, on the digits: separators are stepped over and nothing else.
DecodeDegreeBcd(d) ==
    LET deg == d[1] * 100 + d[2] * 10 + d[3]
        frac == d[4] * 60000 + d[5] * 6000 + d[6] * 1000 + d[7] * 100 + d[8] * 10 + d[9]
    IN  IF deg = 0 THEN 0 ELSE deg * Million + ((frac * 50 + 9) \div 2) \div 9

\* tky_to_wgs84_lat and tky_to_wgs84_lon.
TkyToWgs84Lat(la, lo) ==
    IF la = 0 \/ lo = 0 THEN 0 ELSE la - la \div 9350 + lo \div 57261 + 4602
TkyToWgs84Lon(la, lo) ==
    IF la = 0 \/ lo = 0 THEN 0 ELSE lo - la \div 21721 - lo \div 12042 + 10040

\* insert_wgs84: a coordinate of 0 leaves the record without a position.
NoPosition == [lat |-> 0, lon |-> 0]
InsertWgs84(wa, wo) == IF wa = 0 \/ wo = 0 THEN NoPosition ELSE [lat |-> wa, lon |-> wo]

\* emit_gps_lat_lon_bcd and emit_gps_lat_lon_raw, and what the SENDAI layout does instead.
FromTky(la, lo) == InsertWgs84(TkyToWgs84Lat(la, lo), TkyToWgs84Lon(la, lo))
EmitBcd(la, lo) == FromTky(DecodeDegreeBcd(la), DecodeDegreeBcd(lo))
EmitRaw(la, lo) == FromTky(DecodeRaw24(10, la), DecodeRaw24(110, lo))
EmitSendai(la, lo) == InsertWgs84(DecodeDegreeBcd(la), DecodeDegreeBcd(lo))

-----------------------------------------------------------------------------
(***************************************************************************)
(* The sender: it measures latitude and longitude in hundredths of a       *)
(* second and writes them in one of the formats.                           *)
(***************************************************************************)

Digits(s) ==
    LET deg == s \div Degree
        min == (s % Degree) \div 6000
        sec == s % 6000
    IN  <<deg \div 100, (deg \div 10) % 10, deg % 10, min \div 10, min % 10,
          sec \div 1000, (sec \div 100) % 10, (sec \div 10) % 10, sec % 10>>

Raw24(origin, s) == s - origin * Degree

\* The millionth of a degree nearest to s: 9 hundredths of a second are 25 of them.
Millionths(s) == (25 * s + 4) \div 9

\* Tokyo to WGS84 as docs/en/decoder.md:250-251 has it, of coordinates that are known.
Wgs84(la, lo) ==
    [lat |-> la + 4602 - la \div 9350 + lo \div 57261,
     lon |-> lo + 10040 - la \div 21721 - lo \div 12042]
=============================================================================
