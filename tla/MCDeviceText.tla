------------------------------ MODULE MCDeviceText ------------------------------
EXTENDS DeviceText

\* Four users' entries.  The SSIDs have a quote, a blank, and the names of the
\* members; they are shorter than the field, fill it, or do not fit.
Name == <<"n", "e", "t">>
Full == <<"a", "b", "c", "d", "e", "f", "g", "h">>
Broker == <<"broker">>
Address == <<"1", ".", "2", ".", "3", ".", "4", "5">>
NoAddress == <<"1", ".", "2", ".", "3", "0", "0", ".">>

Entry(ssid, password, mqttHost, mqttPort) ==
  << <<Names.ssid, Str(ssid)>>, <<Names.password, Str(password)>>,
     <<Names.mqttHost, Str(mqttHost)>>, <<Names.mqttPort, mqttPort>> >>

Type == <<Names.type, Str(<<"set">>)>>
Request(setup) == Obj(<<Type, <<Names.setup, Obj(setup)>> >>)

Entries ==
  { Entry(Name, <<"p">>, Broker, Num(1883)),
    Entry(Full, Full, Address, Num(70000)),
    Entry(<<"\"", ",", "\"", "pass", "word", "\"", ":">>, <<>>, NoAddress, Num(-1)),
    Entry(<<"a", "\\", "\"", " ", "}">>, Full \o Name, Address, Num(0)),
    Entry(Names.ssid, Names.mqttHost, Broker, Null) }

Whole == Entry(Name, <<"q">>, Address, Num(8883))
Inner == Obj(Entry(<<"x">>, <<"y">>, <<"z">>, Num(9)))

\* Members whose names begin those that are looked for.
Short == << << <<"pass">>, Str(<<"r">>)>>, << <<"mqtt">>, Str(Broker)>> >>

\* What other senders may make of it.
Variants ==
  { Obj(<< <<Names.type, Str(<<"get">>)>> >>),
    Obj(<< <<Names.type, Str(<<"reset">>)>>, <<Names.setup, Obj(Whole)>> >>),
    Obj(<< <<Names.type, Num(1)>> >>),
    Obj(<<Type>>),
    Obj(<<Type, <<Names.setup, Arr(<<Obj(Whole)>>)>> >>),
    Obj(<< <<Names.setup, Obj(Reverse(Whole))>>, Type>>),
    Obj(<< << <<"last">>, Inner>>, Type,
           <<Names.setup, Obj(<< << <<"last">>, Arr(<<Inner, Null>>)>> >> \o Whole)>> >>),
    Obj(<<Type, <<Names.setup, Obj(SubSeq(Whole, 1, 2))>>, << <<"last">>, Inner>> >>),
    Obj(<< << <<"t">>, Str(<<"set">>)>>, << <<"set">>, Obj(Whole)>> >>),
    Obj(<< << <<>>, Num(2)>>, Type, <<Names.setup, Obj(Whole)>> >>),
    Request(<<Whole[1], Short[1], Whole[3], Whole[2], Whole[4]>>),
    Request(<<Short[2]>> \o Whole),
    Request(SubSeq(Whole, 1, 3)),
    Request(Tail(Whole)),
    Request([Whole EXCEPT ![2] = <<Names.password, Null>>]) }

MCPosts == {[doc |-> Request(e), gap |-> <<>>] : e \in Entries}
             \cup {[doc |-> d, gap |-> <<" ", "\n">>] : d \in Variants}

MCLists == { <<>>,
             <<[signal |-> -70, ssid |-> Name, auth |-> 3]>>,
             <<[signal |-> -9, ssid |-> <<"\"", "x">>, auth |-> 0],
               [signal |-> -100, ssid |-> <<>>, auth |-> 4]>> }

Host == <<"api", ".", "org">>
MCUrls == { [host |-> Host, port |-> NoPort, path |-> <<"/", "data", "/", "1">>],
            [host |-> Host, port |-> 8080, path |-> <<"/", "1", "7">>],
            [host |-> Address, port |-> 81, path |-> <<>>],
            [host |-> Host, port |-> 65535, path |-> <<"/", "a", ":", "9", "/">>],
            [host |-> Host, port |-> NoPort, path |-> <<"/", "a", ":", "9">>],
            [host |-> Host, port |-> NoPort, path |-> <<>>] }

Weather(icon, temp) == << <<Names.icon, Str(<<icon>>)>>, <<Names.temp, Num(temp)>> >>
Now(members) == <<Names.current, Obj(members)>>
Forecast == << <<"forecast">>, Arr(<<Obj(Weather("snow", -20)), Obj(Weather("cloudy", 5))>>)>>

MCReports ==
  { Obj(<<Now(Weather("rain", 7)), Forecast>>),
    Obj(<<Forecast, Now(<< << <<"wind">>, Obj(Weather("tstorms", 1))>> >>
                          \o Reverse(Weather("mostlysunny", -12)))>>),
    Obj(<<Now(Weather("fog", 104))>>),
    Obj(<<Now(<< << <<"t">>, Num(8)>> >> \o Weather("sleet", 3)), Forecast>>),
    Obj(<<Now(<< <<Names.icon, Null>>, <<Names.temp, Num(3)>> >>), Forecast>>),
    Obj(<< << <<"error">>, Str(<<"key">>)>> >>) }

MCMeaning == (Broker :> Broker) @@ (Address :> <<1, 2, 3, 45>>) @@ (NoAddress :> NoAddress)
=============================================================================
