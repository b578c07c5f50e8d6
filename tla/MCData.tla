-------------------------------- MODULE MCData --------------------------------
(*****************************************************************************)
(* The libraries that compute with bits or take sequences and chains apart   *)
(* by recursion: the SD library above the blocks of the card (files, paths   *)
(* and listings), the cipher of the CC3000, DNS, the XBee radio and the      *)
(* Firmata host. They do not share state, so each behaviour is about one.    *)
(*****************************************************************************)
EXTENDS Integers, Sequences

VARIABLES
  part,   \* the library this behaviour is about
  card, cache, search, file, want, may, vague, torn, cardFaults, starts, calls,   \* libraries/SD: files over the cached volume
  tree, done,   \* libraries/SD: paths
  slots, dirFile, stable, listed, over,   \* libraries/SD: listings
  state, original, layers,   \* libraries/bfinlibmaster: security
  lookup, answers, lookups,   \* libraries/Ethernet: DNS
  xb, wire, request, faults, since,   \* libraries/XBee: frames
  sample,   \* libraries/XBee: input samples
  fp, bd, high, serial, heard, hostPort, count, lostBytes, endLost   \* libraries/Firmata

files ==
  <<card, cache, search, file, want, may, vague, torn, cardFaults, starts, calls>>
paths ==
  <<tree, done>>
listing ==
  <<slots, dirFile, stable, listed, over>>
cc3000Aes ==
  <<state, original, layers>>
dns ==
  <<lookup, answers, lookups>>
xbee ==
  <<xb, wire, request, faults, since>>
xbeeSample ==
  <<sample>>
firmata ==
  <<fp, bd, high, serial, heard, hostPort, count, lostBytes, endLost>>
vars == <<part, files, paths, listing, cc3000Aes, dns, xbee, xbeeSample, firmata>>

\* Names, names that are too long, and separators at the start, the end and in between.
Paths ==
  {<<>>, <<"/">>, <<"a">>, <<"/", "a">>, <<"a", "/">>, <<"b">>, <<"a", "/", "b">>,
   <<"/", "a", "/", "/", "b">>, <<"a", "/", "b", "/", "a">>, <<"b", "b", "b">>, <<"b", "b">>,
   <<"b", "b", "/", "b">>, <<"/", "/", "a">>}

\* The key and the block of the standard's example, and another key, which ciphers the
\* example's cipher again, and the block.
Keys == {<<0, 1, 2, 3, 4, 5, 6, 7, 8, 9, 10, 11, 12, 13, 14, 15>>,
         <<255, 252, 249, 246, 243, 240, 237, 234, 231, 228, 225, 222, 219, 216, 213, 210>>}
Blocks == {<<0, 17, 34, 51, 68, 85, 102, 119, 136, 153, 170, 187, 204, 221, 238, 255>>}

\* "www.g", "wwx.h.c" and "a.b", their addresses, and two addresses in digits.
HostNames == {<<119, 119, 119, 46, 103>>, <<119, 119, 120, 46, 104, 46, 99>>, <<97, 46, 98>>}
AddressOf(h) == CASE Len(h) = 5 -> <<10, 0, 0, 1>> [] Len(h) = 7 -> <<172, 16, 0, 2>> [] OTHER -> <<10, 0, 0, 3>>
Numeric == {[host |-> <<49, 48, 46, 48, 46, 48, 46, 55>>, address |-> <<10, 0, 0, 7>>],
            [host |-> <<50, 53, 53, 46, 57, 46, 50, 48, 48, 46, 49>>, address |-> <<255, 9, 200, 1>>]}

\* Nothing, a payload with the start byte in it, and one with the escape byte.
Payloads == {<<>>, <<126, 5>>, <<125>>}

SF == INSTANCE SdFile WITH
  ClusterCount <- 3, PerFat <- 3, PerBlock <- 2, Files <- {"a", "b"}, Dirs <- {"d"},
  RootSlots <- 2, Lengths <- {1, 3}, Positions <- {0, 2}, MaxSize <- 3, MaxFaults <- 1,
  MaxStarts <- 1, MaxCalls <- 5, faults <- cardFaults
SP == INSTANCE SDClass WITH
  MAX_COMPONENT_LEN <- 2, Paths <- Paths
SL == INSTANCE SdDirectory WITH
  Names <- {"x", "y", "z"}, PerCluster <- 3, MaxClusters <- 2
CA == INSTANCE CC3000AES WITH
  Keys <- Keys, Blocks <- Blocks, Depth <- 2
DN == INSTANCE Dns WITH
  HostNames <- HostNames, Numeric <- Numeric, Unset <- <<0, 0, 0, 0>>, MaxLookups <- 3
XB == INSTANCE XBee WITH
  Payloads <- Payloads, MAX_FRAME_DATA_SIZE <- 22, MaxFaults <- 1
XS == INSTANCE XBeeSample WITH
  Analogs <- {0, 1, 3}, Digitals <- {0, 2, 8}
FM == INSTANCE StandardFirmata WITH
  MAX_DATA_BYTES <- 8, Pins <- {0, 7}, AnalogPins <- {7}, PwmPins <- {0}, ServoPins <- {0},
  I2cPins <- {7}, TOTAL_PINS <- 20, MAX_QUERIES <- 2, MaxMessages <- 3, MaxLost <- 2, MaxWaiting <- 1
-----------------------------------------------------------------------------
(* The variables of a library that is not looked at have the value 0. *)
filesOff ==
  /\ card = 0 /\ cache = 0 /\ search = 0 /\ file = 0 /\ want = 0 /\ may = 0 /\ vague = 0
  /\ torn = 0 /\ cardFaults = 0 /\ starts = 0 /\ calls = 0
pathsOff ==
  /\ tree = 0 /\ done = 0
listingOff ==
  /\ slots = 0 /\ dirFile = 0 /\ stable = 0 /\ listed = 0 /\ over = 0
cc3000AesOff ==
  /\ state = 0 /\ original = 0 /\ layers = 0
dnsOff ==
  /\ lookup = 0 /\ answers = 0 /\ lookups = 0
xbeeOff ==
  /\ xb = 0 /\ wire = 0 /\ request = 0 /\ faults = 0 /\ since = 0
xbeeSampleOff ==
  /\ sample = 0
firmataOff ==
  /\ fp = 0 /\ bd = 0 /\ high = 0 /\ serial = 0 /\ heard = 0 /\ hostPort = 0
  /\ count = 0 /\ lostBytes = 0 /\ endLost = 0

Init ==
  \/ /\ part = "files" /\ SF!Init
     /\ pathsOff /\ listingOff /\ cc3000AesOff /\ dnsOff
     /\ xbeeOff /\ xbeeSampleOff /\ firmataOff
  \/ /\ part = "paths" /\ SP!Init
     /\ filesOff /\ listingOff /\ cc3000AesOff /\ dnsOff
     /\ xbeeOff /\ xbeeSampleOff /\ firmataOff
  \/ /\ part = "listing" /\ SL!Init
     /\ filesOff /\ pathsOff /\ cc3000AesOff /\ dnsOff
     /\ xbeeOff /\ xbeeSampleOff /\ firmataOff
  \/ /\ part = "cc3000Aes" /\ CA!Init
     /\ filesOff /\ pathsOff /\ listingOff /\ dnsOff
     /\ xbeeOff /\ xbeeSampleOff /\ firmataOff
  \/ /\ part = "dns" /\ DN!Init
     /\ filesOff /\ pathsOff /\ listingOff /\ cc3000AesOff
     /\ xbeeOff /\ xbeeSampleOff /\ firmataOff
  \/ /\ part = "xbee" /\ XB!Init
     /\ filesOff /\ pathsOff /\ listingOff /\ cc3000AesOff
     /\ dnsOff /\ xbeeSampleOff /\ firmataOff
  \/ /\ part = "xbeeSample" /\ XS!Init
     /\ filesOff /\ pathsOff /\ listingOff /\ cc3000AesOff
     /\ dnsOff /\ xbeeOff /\ firmataOff
  \/ /\ part = "firmata" /\ FM!Init
     /\ filesOff /\ pathsOff /\ listingOff /\ cc3000AesOff
     /\ dnsOff /\ xbeeOff /\ xbeeSampleOff

Next ==
  \/ /\ part = "files" /\ SF!Next
     /\ UNCHANGED <<part, paths, listing, cc3000Aes, dns, xbee, xbeeSample, firmata>>
  \/ /\ part = "paths" /\ SP!Next
     /\ UNCHANGED <<part, files, listing, cc3000Aes, dns, xbee, xbeeSample, firmata>>
  \/ /\ part = "listing" /\ SL!Next
     /\ UNCHANGED <<part, files, paths, cc3000Aes, dns, xbee, xbeeSample, firmata>>
  \/ /\ part = "cc3000Aes" /\ CA!Next
     /\ UNCHANGED <<part, files, paths, listing, dns, xbee, xbeeSample, firmata>>
  \/ /\ part = "dns" /\ DN!Next
     /\ UNCHANGED <<part, files, paths, listing, cc3000Aes, xbee, xbeeSample, firmata>>
  \/ /\ part = "xbee" /\ XB!Next
     /\ UNCHANGED <<part, files, paths, listing, cc3000Aes, dns, xbeeSample, firmata>>
  \/ /\ part = "xbeeSample" /\ XS!Next
     /\ UNCHANGED <<part, files, paths, listing, cc3000Aes, dns, xbee, firmata>>
  \/ /\ part = "firmata" /\ FM!Next
     /\ UNCHANGED <<part, files, paths, listing, cc3000Aes, dns, xbee, xbeeSample>>

Spec == Init /\ [][Next]_vars
-----------------------------------------------------------------------------
\* SdVolume and SdFile: files keep what they were given. Every file has a chain of its
\* own, long enough for its size, until a call that frees clusters is interrupted; the
\* second FAT is a copy of the first whenever no change is pending; a cluster marked as
\* used belongs to a file while no call has failed; after a power failure the card has
\* every byte of the last flush, or what was written over it since; and what is read
\* through an open file is what was written, whichever file used the cache last, as long
\* as no whole block was written over one that waited in the cache.
FilesKept ==
  part = "files" => /\ SF!ChainsDisjoint
                    /\ SF!MirrorAgrees
                    /\ SF!NoLostClusters
                    /\ SF!FlushedSurvives
                    /\ SF!ReadBack
                    /\ SF!RangeHoldsFile

\* SD: a file can be opened exactly if exists finds it, for every proper path; mkdir
\* adds only what is on its path, remove and rmdir take away only its last name; nothing
\* hangs below a directory that is gone or below a plain file. A listing for reading
\* that is over has returned every file that was there all the time, and none of them
\* twice.
NamesFound ==
  /\ part = "paths" => SP!WalksAgree /\ SP!OnlyNamedChanges /\ SP!NoOrphans
  /\ part = "listing" => SL!ListsAll /\ SL!ListedOnce

\* CC3000: decrypting as often as encrypting gives the block back, and the cipher is
\* AES-128, by the example of its standard.
CipherIsAES ==
  part = "cc3000Aes" => CA!DecryptUndoesEncrypt /\ CA!IsAES128

\* DNS: a lookup that asks the server and succeeds returns the address of the name asked
\* for, and a numeric address is converted to its four numbers.
LookupsRight ==
  part = "dns" => DN!LookupIsRight /\ DN!NumericIsRight

\* XBee: a response that is reported carries the payload or the status of the request it
\* answers, through escapes, cuts and earlier losses; of the whole frames after a faulty
\* one the third is always received; an analog reading of any sample and pin is the one
\* the radio packed; and a digital input is on exactly if the radio sampled it high in the
\* first sample of the frame, whichever sample is asked for.
RadioFrames ==
  /\ part = "xbee" => XB!PayloadIntact /\ XB!RecoversInThree
  /\ part = "xbeeSample" => XS!AnalogAsSampled /\ XS!DigitalAsSampled

\* Firmata: every whole message that does not begin inside a sysex message is carried out
\* once with its own arguments, whatever was lost before it; what is damaged is carried out
\* at most as a sysex message until a second byte is lost, and only a lost END_SYSEX lets
\* the parser write behind its buffer; a pin driven by a servo is configured, and
\* reported, as a servo; and after a pass with reporting on the host knows the state of
\* exactly the input pins.
HostProtocol ==
  /\ [](part = "firmata" => FM!CallsAsSent /\ FM!OverrunByLoss /\ FM!ServoIsConfigured)
  /\ [][part = "firmata" => FM!HostSeesPortStep]_vars
=============================================================================
