------------------------------- MODULE MCLive -------------------------------
(***************************************************************************)
(* Whatever must eventually happen, on small instances, and the pure and   *)
(* small components entirely. The components share no state, so TLC        *)
(* explores them side by side: part says which of them a behaviour is      *)
(* about.                                                                  *)
(***************************************************************************)
EXTENDS TLC, Integers, Sequences

VARIABLES
    part,       \* the component that runs
    s1, s2, s3, s4, s5, s6, s7, s8, s9, s10, s11, s12, s13, s14, s15, s16, s17, s18
                \* its variables, in the order of its vars

vars == <<part, s1, s2, s3, s4, s5, s6, s7, s8, s9, s10, s11, s12, s13, s14, s15, s16,
          s17, s18>>

If(ip, gw, b, mtu, wire) == [ip |-> ip, gw |-> gw, broadcast |-> b, mtu |-> mtu, wire |-> wire]
(* Three routers in a ring, the default routes of which point at each other. *)
Ring4 == <<<<If(<<1, 1>>, <<1, 2>>, TRUE, 9, "a"), If(<<3, 2>>, <<3, 1>>, FALSE, 0, "c")>>,
           <<If(<<2, 1>>, <<2, 2>>, TRUE, 6, "b"), If(<<1, 2>>, <<1, 1>>, TRUE, 9, "a")>>,
           <<If(<<3, 1>>, <<3, 2>>, FALSE, 8, "c"), If(<<2, 2>>, <<2, 1>>, TRUE, 6, "b")>>>>
P4(s, d, proto, ttl, icmp, tot) ==
    [v |-> 4, src |-> s, dst |-> d, ttl |-> ttl, proto |-> proto, hlen |-> 2, len |-> tot,
     tot |-> tot, df |-> FALSE, mf |-> FALSE, off |-> 0, orig |-> tot, icmp |-> icmp,
     ll |-> "host"]
To4(d, icmp) == P4(<<1, 2>>, d, IF icmp = "closed" THEN "udp" ELSE "icmp", 3, icmp, 4)
Foreign4 == {<<1, 1, p>> : p \in
    {P4(<<1, 2>>, d, k[1], t, k[2], tot) :
        d \in {<<1, 1>>, <<2, 2>>, <<9, 1>>, <<1, 3>>, <<2, 3>>, <<224, 1>>, <<255, 3>>,
               <<240, 1>>, <<169, 1>>, <<127, 1>>},
        k \in {<<"icmp", "echo">>, <<"udp", "closed">>, <<"other", "none">>},
        t \in {1, 3}, tot \in {4, 9}}
    \cup {[To4(d, "echo") EXCEPT !.df = TRUE, !.len = 9, !.tot = 9, !.orig = 9] :
            d \in {<<1, 1>>, <<2, 2>>, <<9, 1>>}}
    \cup {[To4(<<1, 1>>, "echo") EXCEPT !.src = s] :
            s \in {<<0, 0>>, <<1, 3>>, <<224, 1>>, <<1, 1>>, <<2, 3>>}}
    \cup {To4(<<1, 1>>, t) : t \in {"dur", "te", "er"}}
    \cup {[To4(<<1, 1>>, "closed") EXCEPT !.len = n, !.hlen = h] : n \in {0, 3, 5}, h \in 1 .. 3}
    \cup {[P4(<<1, 2>>, d, "icmp", 3, "echo", 6) EXCEPT !.mf = TRUE, !.orig = 12] :
            d \in {<<1, 1>>, <<2, 2>>}}}
Sends4 == {[host |-> 1, src |-> s, dst |-> d, size |-> n, opt |-> o] :
             s \in {<<0, 0>>, <<3, 2>>}, n \in {2, 8}, o \in {0, 1, 3},
             d \in {<<1, 1>>, <<1, 2>>, <<2, 2>>, <<127, 1>>, <<9, 1>>}}

(* The program's one interface, the loopback interface of netif_init, with the *)
(* MTU NewLWIPStack gives it. At the other end of the tun device is a stack    *)
(* that takes every packet too.                                                *)
Tun4Netifs == <<<<If(<<127, 1>>, <<127, 1>>, FALSE, 6, "tun")>>,
                <<If(<<127, 1>>, <<127, 1>>, FALSE, 6, "tun")>>>>
Tun4Foreign == {<<1, 1, p>> : p \in
    {P4(s, d, k[1], 3, k[2], tot) :
        s \in {<<9, 2>>, <<9, 3>>, <<127, 1>>, <<0, 0>>, <<224, 1>>, <<255, 3>>},
        d \in {<<9, 1>>, <<9, 3>>, <<127, 1>>, <<224, 1>>, <<255, 3>>, <<240, 1>>, <<0, 0>>},
        k \in {<<"icmp", "echo">>, <<"icmp", "er">>, <<"icmp", "dur">>, <<"tcp", "none">>,
               <<"udp", "none">>, <<"other", "none">>}, tot \in {2, 4, 9}}
    \cup {[P4(<<9, 2>>, <<9, 1>>, "icmp", 3, "echo", 4) EXCEPT !.len = n, !.hlen = h, !.df = df] :
            n \in {0, 3, 5}, h \in 1 .. 3, df \in BOOLEAN}
    \cup {[P4(<<9, 2>>, <<9, 1>>, k, 3, "echo", 6) EXCEPT !.mf = TRUE, !.orig = 12] :
            k \in {"icmp", "other"}}}

A6(s, n, h) == [s |-> s, n |-> n, h |-> h, z |-> 0]
If6(mtu, wire, as) == [mtu |-> mtu, wire |-> wire, addrs |-> as]
Ring6 == <<<<If6(10, "a", <<A6(2, 9, 1), A6(14, 1, 1), A6(8, 1, 1)>>),
             If6(0, "c", <<A6(2, 9, 1), A6(14, 3, 2)>>)>>,
           <<If6(12, "b", <<A6(2, 9, 2), A6(14, 2, 1)>>),
             If6(10, "a", <<A6(2, 9, 2), A6(14, 1, 2)>>)>>,
           <<If6(14, "c", <<A6(14, 3, 1)>>), If6(12, "b", <<A6(14, 2, 2)>>)>>>>
Dests6 == {A6(2, 9, 7), A6(14, 1, 2), A6(14, 7, 7), A6(8, 1, 3), A6(5, 1, 1), A6(2, 255, 1),
           A6(100, 0, 1), A6(14, 1, 1), A6(2, 9, 1), A6(0, 0, 0)}
ExtHdr(t, act) == [t |-> t, act |-> act, fits |-> TRUE, whole |-> 4]
P6(s, d, proto, hl, icmp, plen, es) ==
    [src |-> s, dst |-> d, hl |-> hl, proto |-> proto, plen |-> plen, exts |-> es, icmp |-> icmp]
Peer6 == A6(14, 1, 2)
Host6 == A6(14, 1, 1)
Foreign6 == {<<1, 1, p>> : p \in
    {P6(s, d, k[1], hl, k[2], n, <<>>) :
        s \in {Peer6, A6(2, 9, 2)}, hl \in {1, 3}, n \in {3, 11},
        d \in {Host6, A6(14, 2, 2), A6(14, 7, 1), A6(14, 3, 1), A6(2, 255, 1), A6(2, 255, 101),
               A6(14, 255, 9), A6(100, 0, 1), A6(2, 9, 1), A6(2, 9, 5)},
        k \in {<<"icmp6", "ereq">>, <<"icmp6", "erep">>, <<"udp", "none">>, <<"other", "none">>}}
    \cup {P6(Peer6, d, "other", 3, "none", 4, es) : d \in {Host6, A6(2, 255, 1)},
        es \in {<<ExtHdr(t, a)>> : t \in {"hbh", "dest", "rout", "frag"}, a \in 0 .. 3}
               \cup {<<ExtHdr(t, 0), ExtHdr("frag", 0)>> : t \in {"hbh", "dest"}}
               \cup {<<ExtHdr("dest", 0), ExtHdr("hbh", 0)>>, <<[ExtHdr("hbh", 0) EXCEPT !.fits = FALSE]>>}}
    \cup {P6(s, Host6, "icmp6", 3, "ereq", 3, <<>>) :
            s \in {A6(0, 0, 0), A6(101, 0, 1), A6(2, 255, 1), Host6, A6(100, 0, 1)}}
    \cup {P6(A6(0, 0, 0), A6(2, 255, 101), "other", 3, "none", 3, <<ExtHdr("dest", 2)>>)}
    \cup {P6(Peer6, Host6, "icmp6", 3, t, 3, <<>>) : t \in {"short", "dur"}}}
Sends6 == {[host |-> 1, src |-> s, dst |-> d, size |-> n] :
             s \in {A6(0, 0, 0), A6(14, 3, 2), A6(2, 9, 1)}, n \in {2, 11},
             d \in {Peer6, A6(14, 2, 2), A6(2, 9, 2), A6(14, 7, 1), A6(2, 255, 1), Host6}}

(* The loopback address, and one that a router advertisement may add.      *)
Tun6Netifs == <<<<If6(10, "tun", <<A6(100, 0, 1), A6(14, 1, 1)>>)>>,
                <<If6(10, "tun", <<A6(100, 0, 1)>>)>>>>
Tun6Foreign == {<<1, 1, p>> : p \in
    {P6(s, d, k[1], 3, k[2], n, <<>>) : s \in {Peer6, A6(2, 9, 2), A6(100, 0, 1)}, n \in {0, 3, 11},
        d \in {Host6, A6(14, 7, 1), A6(2, 255, 1), A6(14, 255, 9), A6(100, 0, 1), A6(2, 9, 5)},
        k \in {<<"icmp6", "ereq">>, <<"icmp6", "erep">>, <<"udp", "none">>, <<"other", "none">>}}
    \cup {P6(Peer6, d, k, 3, "pp", 4, es) : d \in {A6(14, 7, 1), A6(2, 255, 1)},
        k \in {"other", "icmp6"},
        es \in {<<ExtHdr(t, a)>> : t \in {"hbh", "dest", "rout", "frag"}, a \in 0 .. 3}
               \cup {<<ExtHdr(t, 0), ExtHdr("frag", 0)>> : t \in {"hbh", "dest"}}}}

LayoutTwo == [d \in {"a", "b"} |-> IF d = "a" THEN <<3, 4>> ELSE <<2, 9>>]
LayoutLong == [d \in {"a", "b"} |-> IF d = "a" THEN <<3, 6>> ELSE <<2, 8>>]
Every == [h \in {"tcp", "reass", "nd6"} |-> IF h = "nd6" THEN 2 ELSE 1]

-----------------------------------------------------------------------------
Relay == INSTANCE UdpRelay WITH entry <- s1, state <- s2, remote <- s3, pending <- s4,
      relay <- s5, sock <- s6, pc <- s7, job <- s8, made <- s9, pkts <- s10,
      late <- s11, MaxConns <- 1, MaxDsts <- 1, MaxPkts <- 3, QueueCap <- 1,
      StopAt <- {}

Stopped == INSTANCE UdpRelay WITH entry <- s1, state <- s2, remote <- s3, pending <- s4,
      relay <- s5, sock <- s6, pc <- s7, job <- s8, made <- s9, pkts <- s10,
      late <- s11, MaxConns <- 1, MaxDsts <- 1, MaxPkts <- 1, QueueCap <- 1,
      StopAt <- {0, 1}

Dns == INSTANCE DnsHandler WITH dnsMap <- s1, pivot <- s2, open <- s3, created <- s4,
      thread <- s5, reader <- s6, nReaders <- s7, inflight <- s8, sentQ <- s9,
      cleaner <- s10, ticking <- s11, delivered <- s12, askers <- s13, closed <- s14,
      Clients <- {"a"}, Ids <- {1, 2}, Threads <- {1, 2}, MaxSockets <- 2,
      MaxQueries <- 2

Sample == INSTANCE ClientHello WITH hello <- s1, pc <- s2, base <- s3, len <- s4,
      index <- s5, Hellos <- {}

Records == {Sample!Client(sid, c, n[1], n[2], name, n3, p, cut) : sid \in {0, 32}, c \in {2, 256},
        n \in {<<-1, -1>>, <<3, 8>>, <<240, -1>>, <<260, 4>>}, name \in {3, 200, 250},
        n3 \in {-1, 100, 245}, p \in {<<0>>, <<9, 0, 0>>}, cut \in {300, 5000}}

Hello == INSTANCE ClientHello WITH hello <- s1, pc <- s2, base <- s3, len <- s4,
      index <- s5, Hellos <- Records

Sender == INSTANCE TcpSender WITH pcb <- s1, wire <- s2, acks <- s3, peer <- s4,
      lost <- s5, fails <- s6, Wrap <- 32, MSS <- 2, TCP_SND_BUF <- 4,
      TCP_SND_QUEUELEN <- 4, TCP_MAXRTX <- 3, InitCwnd <- 4, ISS <- 30, PeerBuf <- 2,
      WriteSizes <- {2}, ReadSizes <- {2}, MaxBytes <- 4, MaxLoss <- 1, MaxFail <- 0,
      MaxWire <- 2, PeerData <- 0, Closes <- FALSE, Patient <- TRUE

Receiver == INSTANCE TcpReceiver WITH pcb <- s1, Wrap <- 64, TCP_WND <- 4, MSS <- 2,
      IRS <- 61, Total <- 5, MaxSeg <- 2, RecvedSizes <- {1}, MaxRefuse <- 1,
      MaxFail <- 0, FinBeyond <- FALSE

Blocks == INSTANCE TcpPcbs WITH pcb <- s1, list <- s2, tcp_port <- s3, fails <- s4,
      Pcbs <- {"p", "q"}, Remotes <- {1}, Dialled <- {1}, Prios <- {2}, START <- 2,
      END <- 4, Backlog <- 1, SYN_RCVD_TIMEOUT <- 1, FIN_WAIT_TIMEOUT <- 1, MSL2 <- 0,
      KEEP_IDLE <- 0, KEEP_CNT <- 0, MAXRTX <- 2, Keepalive <- FALSE, Connects <- FALSE,
      MaxFail <- 1

Tmr == INSTANCE TcpTimers WITH active <- s1, bound <- s2, tw <- s3, local_ip <- s4,
      last_timer <- s5, polltmr <- s6, refused <- s7, netif_ip <- s8, tcp_timer <- s9,
      tcp_timer_ctr <- s10, tcp_active_pcbs_changed <- s11, pc <- s12, pcb <- s13,
      prev <- s14, ops <- s15, ticked <- s16, present <- s17, missed <- s18,
      Pcbs <- {"p", "q"}, NULL <- "null", Wild <- "wild", Addrs <- {}, ANY <- "any",
      CtrMod <- 2, PollInterval <- 1, MaxOps <- 1

Due == INSTANCE Timeouts WITH clock <- s1, next_timeout <- s2,
      current_timeout_due_time <- s3, tcpip_tcp_timer_active <- s4, pcbs <- s5,
      running <- s6, now <- s7, gap <- s8, M <- 12, Cyclic <- {"reass", "nd6"},
      Interval <- Every, User <- {}, Msecs <- {}, MaxGap <- 1, MaxRun <- 1

Frag4 == INSTANCE Ip4Frag WITH reassdatagrams <- s1, ip_reass_pbufcount <- s2,
      out <- s3, Ids <- {"a", "b"}, Layout <- LayoutTwo, Unit <- 2,
      IP_HLEN <- 1, Mtus <- {3, 5}, U16 <- 12, MAXAGE <- 1, MAX_PBUFS <- 6,
      NUM_REASSDATA <- 2, BUFSIZE <- 3

Frag6 == INSTANCE Ip6Frag WITH reassdatagrams <- s1, ip6_reass_pbufcount <- s2,
      out <- s3, Ids <- {"a", "b"}, Layout <- LayoutLong, Unit <- 2, IP6_HLEN <- 1,
      IP6_FRAG_HLEN <- 2, Ext <- 0, Mtus <- {8}, U16 <- 12, MAXAGE <- 1, MAX_PBUFS <- 6,
      NUM_REASSDATA <- 2, BUFSIZE <- 5

Net4 == INSTANCE Ip4 WITH up <- s1, flight <- s2, ip_id <- s3, TUN2SOCKS <- FALSE,
      IP_FORWARD <- TRUE, Netifs <- Ring4, Default <- <<1, 1, 1>>,
      Changing <- {<<1, 1>>, <<2, 1>>}, Foreign <- Foreign4, Sends <- Sends4,
      IP_HLEN <- 2, OPT_MAX <- 2, Unit <- 2, ICMP_HLEN <- 1, DATASIZE <- 1,
      ICMP_TTL <- 3, HostMax <- 3

Net6 == INSTANCE Ip6 WITH addr_state <- s1, flight <- s2, TUN2SOCKS <- FALSE,
      LWIP_IPV6_FORWARD <- TRUE, Netifs <- Ring6, Default <- <<1, 1, 1>>,
      NdRoute <- <<0, 0, 0>>, Static <- {A6(14, n, h) : n \in {1, 3}, h \in {1, 2}},
      Changing <- {<<1, 1, 1>>}, Dests <- Dests6, Foreign <- Foreign6, Sends <- Sends6,
      IP6_HLEN <- 2, FRAG_HLEN <- 1, Unit <- 2, ICMP6_HLEN <- 1, DATASIZE <- 1,
      ICMP6_HL <- 3

Addr6 == INSTANCE Ip6 WITH addr_state <- s1, flight <- s2, TUN2SOCKS <- FALSE,
      LWIP_IPV6_FORWARD <- TRUE, Netifs <- Ring6, Default <- <<1, 1, 1>>,
      NdRoute <- <<0, 0, 0>>, Static <- {A6(14, n, h) : n \in {1, 3}, h \in {1, 2}},
      Changing <- {<<1, 1, 1>>, <<1, 1, 2>>, <<1, 1, 3>>}, Dests <- Dests6,
      Foreign <- {}, Sends <- {}, IP6_HLEN <- 2, FRAG_HLEN <- 1, Unit <- 2,
      ICMP6_HLEN <- 1, DATASIZE <- 1, ICMP6_HL <- 3

Tun4 == INSTANCE Ip4 WITH up <- s1, flight <- s2, ip_id <- s3, TUN2SOCKS <- TRUE,
      IP_FORWARD <- FALSE, Netifs <- Tun4Netifs, Default <- <<0, 0>>, Changing <- {},
      Foreign <- Tun4Foreign, Sends <- Sends4, IP_HLEN <- 2, OPT_MAX <- 2, Unit <- 2,
      ICMP_HLEN <- 1, DATASIZE <- 1, ICMP_TTL <- 3, HostMax <- 3

Tun6 == INSTANCE Ip6 WITH addr_state <- s1, flight <- s2, TUN2SOCKS <- TRUE,
      LWIP_IPV6_FORWARD <- FALSE, Netifs <- Tun6Netifs, Default <- <<0, 0>>,
      NdRoute <- <<0, 0>>, Static <- {}, Changing <- {<<1, 1, 2>>}, Dests <- Dests6,
      Foreign <- Tun6Foreign, Sends <- Sends6, IP6_HLEN <- 2, FRAG_HLEN <- 1, Unit <- 2,
      ICMP6_HLEN <- 1, DATASIZE <- 1, ICMP6_HL <- 3

Auto == INSTANCE Autoip WITH auto <- s1, ip <- s2, inbox <- s3, joined <- s4,
      Hosts <- {1, 2}, Seed <- <<0, 0>>, RANGE_START <- 1, RANGE_END <- 3, MOD <- 5,
      TRIED <- 3, PROBE_NUM <- 2, ANNOUNCE_NUM <- 2, Splits <- TRUE

Resolver == INSTANCE Dns WITH dns <- s1, servers <- s2, local <- s3, TABLE_SIZE <- 1,
      MAX_REQUESTS <- 1, MAX_SERVERS <- 2, MAX_PORTS <- 1, MAX_RETRIES <- 2,
      MAX_TTL <- 2, SEQ <- 2, Callers <- {1, 2}, Names <- {1, 2},
      Types <- {"v4", "v6v4"}, Txids <- {1, 2}, Ports <- {1}, Servers <- {1, 2},
      NewServers <- {}, Ttls <- {0}, Records <- {<<>>, <<"a">>}, InFlight <- 1,
      LocalMax <- 0

Arp == INSTANCE Etharp WITH arp_table <- s1, hint <- s2, heard <- s3, out <- s4,
      TABLE_SIZE <- 2, MAXAGE <- 2, MAXPENDING <- 2, QUEUE_LEN <- 1, UNICAST <- 1,
      BROADCAST <- 1, Netifs <- {1}, Hosts <- {1, 2}, Gw <- <<0>>, Macs <- {1},
      Statics <- {1}

Nd == INSTANCE Nd6 WITH neighbor_cache <- s1, destination_cache <- s2,
      default_router_list <- s3, prefix_list <- s4, cached_dest <- s5,
      cached_neighbor <- s6, last_router <- s7, DELAY_TIME <- 1, REACHABLE_TIME <- 1,
      Netifs <- {1}, QMax <- 1, MTU <- 2, Lifetimes <- {1}, NUM_ROUTERS <- 1,
      NUM_PREFIXES <- 1, NUM_NEIGHBORS <- 1, NUM_DESTINATIONS <- 1, Hosts <- {1},
      Routers <- {2}, Targets <- {}, Dests <- {11}, Pmtus <- {}, MAX_SOLICIT <- 1

ASSUME Hello!HelloAssumption
ASSUME Due!TimeoutsAssumption

Init ==
    \/ part = "udp" /\ Relay!Init /\ s12 = 0 /\ s13 = 0 /\ s14 = 0 /\ s15 = 0 /\ s16 = 0 /\ s17 = 0 /\ s18 = 0
    \/ part = "udp_stop" /\ Stopped!Init /\ s12 = 0 /\ s13 = 0 /\ s14 = 0 /\ s15 = 0 /\ s16 = 0 /\ s17 = 0 /\ s18 = 0
    \/ part = "dns" /\ Dns!Init /\ s15 = 0 /\ s16 = 0 /\ s17 = 0 /\ s18 = 0
    \/ part = "hello" /\ Hello!Init /\ s6 = 0 /\ s7 = 0 /\ s8 = 0 /\ s9 = 0 /\ s10 = 0 /\ s11 = 0 /\ s12 = 0 /\ s13 = 0 /\ s14 = 0 /\ s15 = 0 /\ s16 = 0 /\ s17 = 0 /\ s18 = 0
    \/ part = "sender" /\ Sender!Init /\ s7 = 0 /\ s8 = 0 /\ s9 = 0 /\ s10 = 0 /\ s11 = 0 /\ s12 = 0 /\ s13 = 0 /\ s14 = 0 /\ s15 = 0 /\ s16 = 0 /\ s17 = 0 /\ s18 = 0
    \/ part = "receiver" /\ Receiver!Init /\ s2 = 0 /\ s3 = 0 /\ s4 = 0 /\ s5 = 0 /\ s6 = 0 /\ s7 = 0 /\ s8 = 0 /\ s9 = 0 /\ s10 = 0 /\ s11 = 0 /\ s12 = 0 /\ s13 = 0 /\ s14 = 0 /\ s15 = 0 /\ s16 = 0 /\ s17 = 0 /\ s18 = 0
    \/ part = "pcbs" /\ Blocks!Init /\ s5 = 0 /\ s6 = 0 /\ s7 = 0 /\ s8 = 0 /\ s9 = 0 /\ s10 = 0 /\ s11 = 0 /\ s12 = 0 /\ s13 = 0 /\ s14 = 0 /\ s15 = 0 /\ s16 = 0 /\ s17 = 0 /\ s18 = 0
    \/ part = "timers" /\ Tmr!Init
    \/ part = "timeouts" /\ Due!Init /\ s9 = 0 /\ s10 = 0 /\ s11 = 0 /\ s12 = 0 /\ s13 = 0 /\ s14 = 0 /\ s15 = 0 /\ s16 = 0 /\ s17 = 0 /\ s18 = 0
    \/ part = "ip4_frag" /\ Frag4!Init /\ s4 = 0 /\ s5 = 0 /\ s6 = 0 /\ s7 = 0 /\ s8 = 0 /\ s9 = 0 /\ s10 = 0 /\ s11 = 0 /\ s12 = 0 /\ s13 = 0 /\ s14 = 0 /\ s15 = 0 /\ s16 = 0 /\ s17 = 0 /\ s18 = 0
    \/ part = "ip6_frag" /\ Frag6!Init /\ s4 = 0 /\ s5 = 0 /\ s6 = 0 /\ s7 = 0 /\ s8 = 0 /\ s9 = 0 /\ s10 = 0 /\ s11 = 0 /\ s12 = 0 /\ s13 = 0 /\ s14 = 0 /\ s15 = 0 /\ s16 = 0 /\ s17 = 0 /\ s18 = 0
    \/ part = "ip4" /\ Net4!Init /\ s4 = 0 /\ s5 = 0 /\ s6 = 0 /\ s7 = 0 /\ s8 = 0 /\ s9 = 0 /\ s10 = 0 /\ s11 = 0 /\ s12 = 0 /\ s13 = 0 /\ s14 = 0 /\ s15 = 0 /\ s16 = 0 /\ s17 = 0 /\ s18 = 0
    \/ part = "ip6" /\ Net6!Init /\ s3 = 0 /\ s4 = 0 /\ s5 = 0 /\ s6 = 0 /\ s7 = 0 /\ s8 = 0 /\ s9 = 0 /\ s10 = 0 /\ s11 = 0 /\ s12 = 0 /\ s13 = 0 /\ s14 = 0 /\ s15 = 0 /\ s16 = 0 /\ s17 = 0 /\ s18 = 0
    \/ part = "tun4" /\ Tun4!Init /\ s4 = 0 /\ s5 = 0 /\ s6 = 0 /\ s7 = 0 /\ s8 = 0 /\ s9 = 0 /\ s10 = 0 /\ s11 = 0 /\ s12 = 0 /\ s13 = 0 /\ s14 = 0 /\ s15 = 0 /\ s16 = 0 /\ s17 = 0 /\ s18 = 0
    \/ part = "tun6" /\ Tun6!Init /\ s3 = 0 /\ s4 = 0 /\ s5 = 0 /\ s6 = 0 /\ s7 = 0 /\ s8 = 0 /\ s9 = 0 /\ s10 = 0 /\ s11 = 0 /\ s12 = 0 /\ s13 = 0 /\ s14 = 0 /\ s15 = 0 /\ s16 = 0 /\ s17 = 0 /\ s18 = 0
    \/ part = "ip6_addr" /\ Addr6!Init /\ s3 = 0 /\ s4 = 0 /\ s5 = 0 /\ s6 = 0 /\ s7 = 0 /\ s8 = 0 /\ s9 = 0 /\ s10 = 0 /\ s11 = 0 /\ s12 = 0 /\ s13 = 0 /\ s14 = 0 /\ s15 = 0 /\ s16 = 0 /\ s17 = 0 /\ s18 = 0
    \/ part = "autoip" /\ Auto!Init /\ s5 = 0 /\ s6 = 0 /\ s7 = 0 /\ s8 = 0 /\ s9 = 0 /\ s10 = 0 /\ s11 = 0 /\ s12 = 0 /\ s13 = 0 /\ s14 = 0 /\ s15 = 0 /\ s16 = 0 /\ s17 = 0 /\ s18 = 0
    \/ part = "resolver" /\ Resolver!Init /\ s4 = 0 /\ s5 = 0 /\ s6 = 0 /\ s7 = 0 /\ s8 = 0 /\ s9 = 0 /\ s10 = 0 /\ s11 = 0 /\ s12 = 0 /\ s13 = 0 /\ s14 = 0 /\ s15 = 0 /\ s16 = 0 /\ s17 = 0 /\ s18 = 0
    \/ part = "arp" /\ Arp!Init /\ s5 = 0 /\ s6 = 0 /\ s7 = 0 /\ s8 = 0 /\ s9 = 0 /\ s10 = 0 /\ s11 = 0 /\ s12 = 0 /\ s13 = 0 /\ s14 = 0 /\ s15 = 0 /\ s16 = 0 /\ s17 = 0 /\ s18 = 0
    \/ part = "nd6" /\ Nd!Init /\ s8 = 0 /\ s9 = 0 /\ s10 = 0 /\ s11 = 0 /\ s12 = 0 /\ s13 = 0 /\ s14 = 0 /\ s15 = 0 /\ s16 = 0 /\ s17 = 0 /\ s18 = 0

RelayKeeps == UNCHANGED <<part, s12, s13, s14, s15, s16, s17, s18>>
StoppedKeeps == UNCHANGED <<part, s12, s13, s14, s15, s16, s17, s18>>
DnsKeeps == UNCHANGED <<part, s15, s16, s17, s18>>
HelloKeeps == UNCHANGED <<part, s6, s7, s8, s9, s10, s11, s12, s13, s14, s15, s16, s17,
                          s18>>
SenderKeeps == UNCHANGED <<part, s7, s8, s9, s10, s11, s12, s13, s14, s15, s16, s17,
                           s18>>
ReceiverKeeps == UNCHANGED <<part, s2, s3, s4, s5, s6, s7, s8, s9, s10, s11, s12, s13,
                             s14, s15, s16, s17, s18>>
BlocksKeeps == UNCHANGED <<part, s5, s6, s7, s8, s9, s10, s11, s12, s13, s14, s15, s16,
                           s17, s18>>
TmrKeeps == UNCHANGED <<part>>
DueKeeps == UNCHANGED <<part, s9, s10, s11, s12, s13, s14, s15, s16, s17, s18>>
Frag4Keeps == UNCHANGED <<part, s4, s5, s6, s7, s8, s9, s10, s11, s12, s13, s14, s15,
                          s16, s17, s18>>
Frag6Keeps == UNCHANGED <<part, s4, s5, s6, s7, s8, s9, s10, s11, s12, s13, s14, s15,
                          s16, s17, s18>>
Net4Keeps == UNCHANGED <<part, s4, s5, s6, s7, s8, s9, s10, s11, s12, s13, s14, s15,
                         s16, s17, s18>>
Net6Keeps == UNCHANGED <<part, s3, s4, s5, s6, s7, s8, s9, s10, s11, s12, s13, s14, s15,
                         s16, s17, s18>>
Addr6Keeps == UNCHANGED <<part, s3, s4, s5, s6, s7, s8, s9, s10, s11, s12, s13, s14,
                          s15, s16, s17, s18>>
AutoKeeps == UNCHANGED <<part, s5, s6, s7, s8, s9, s10, s11, s12, s13, s14, s15, s16,
                         s17, s18>>
ResolverKeeps == UNCHANGED <<part, s4, s5, s6, s7, s8, s9, s10, s11, s12, s13, s14, s15,
                             s16, s17, s18>>
ArpKeeps == UNCHANGED <<part, s5, s6, s7, s8, s9, s10, s11, s12, s13, s14, s15, s16,
                        s17, s18>>
NdKeeps == UNCHANGED <<part, s8, s9, s10, s11, s12, s13, s14, s15, s16, s17, s18>>

Next ==
    \/ part = "udp" /\ Relay!Next /\ RelayKeeps
    \/ part = "udp_stop" /\ Stopped!Next /\ StoppedKeeps
    \/ part = "dns" /\ Dns!Next /\ DnsKeeps
    \/ part = "hello" /\ Hello!Next /\ HelloKeeps
    \/ part = "sender" /\ Sender!Next /\ SenderKeeps
    \/ part = "receiver" /\ Receiver!Next /\ ReceiverKeeps
    \/ part = "pcbs" /\ Blocks!Next /\ BlocksKeeps
    \/ part = "timers" /\ Tmr!Next /\ TmrKeeps
    \/ part = "timeouts" /\ Due!Next /\ DueKeeps
    \/ part = "ip4_frag" /\ Frag4!Next /\ Frag4Keeps
    \/ part = "ip6_frag" /\ Frag6!Next /\ Frag6Keeps
    \/ part = "ip4" /\ Net4!Next /\ Net4Keeps
    \/ part = "ip6" /\ Net6!Next /\ Net6Keeps
    \/ part = "tun4" /\ Tun4!Next /\ Net4Keeps
    \/ part = "tun6" /\ Tun6!Next /\ Net6Keeps
    \/ part = "ip6_addr" /\ Addr6!Next /\ Addr6Keeps
    \/ part = "autoip" /\ Auto!Next /\ AutoKeeps
    \/ part = "resolver" /\ Resolver!Next /\ ResolverKeeps
    \/ part = "arp" /\ Arp!Next /\ ArpKeeps
    \/ part = "nd6" /\ Nd!Next /\ NdKeeps

(* What the code and its environment keep doing. A behaviour stays in its  *)
(* part, so fairness of steps of several parts is fairness of each.        *)
Weak1 ==
    \/ part = "udp" /\ Relay!LwipStep /\ RelayKeeps
    \/ part = "udp_stop" /\ Stopped!LwipStep /\ StoppedKeeps
    \/ part = "dns" /\ Dns!ReaderStep(1) /\ DnsKeeps
    \/ part = "hello" /\ Hello!Next /\ HelloKeeps
    \/ part = "sender" /\ Sender!Progress /\ SenderKeeps
    \/ part = "receiver" /\ Receiver!tcp_fasttmr /\ ReceiverKeeps
    \/ part = "pcbs" /\ Blocks!tcp_slowtmr /\ BlocksKeeps
    \/ part = "timers" /\ Tmr!Timer /\ TmrKeeps
    \/ part = "timeouts" /\ Due!sys_check_timeouts /\ DueKeeps
    \/ part = "ip4_frag" /\ Frag4!ip_reass_tmr /\ Frag4Keeps
    \/ part = "ip6_frag" /\ Frag6!ip6_reass_tmr /\ Frag6Keeps
    \/ part = "autoip" /\ Auto!autoip_tmr(1) /\ AutoKeeps
    \/ part = "resolver" /\ Resolver!dns_tmr /\ ResolverKeeps
    \/ part = "arp" /\ Arp!etharp_tmr /\ ArpKeeps
    \/ part = "nd6" /\ Nd!nd6_tmr /\ NdKeeps
    \/ part = "ip4" /\ Net4!Progress /\ Net4Keeps
    \/ part = "ip6" /\ Net6!Progress /\ Net6Keeps
    \/ part = "tun4" /\ Tun4!Progress /\ Net4Keeps
    \/ part = "tun6" /\ Tun6!Progress /\ Net6Keeps

Weak2 ==
    \/ part = "udp" /\ Relay!DialStep(1) /\ RelayKeeps
    \/ part = "udp_stop" /\ Stopped!DialStep(1) /\ StoppedKeeps
    \/ part = "dns" /\ Dns!ReaderStep(2) /\ DnsKeeps
    \/ part = "sender" /\ Sender!Reading /\ SenderKeeps
    \/ part = "pcbs" /\ Blocks!tcp_fasttmr("p") /\ BlocksKeeps
    \/ part = "timeouts" /\ Due!Handler /\ DueKeeps
    \/ part = "autoip" /\ Auto!autoip_tmr(2) /\ AutoKeeps

Weak3 ==
    \/ part = "udp" /\ Relay!ReaderStep(1) /\ RelayKeeps
    \/ part = "udp_stop" /\ Stopped!ReaderStep(1) /\ StoppedKeeps
    \/ part = "dns" /\ Dns!Receiver(1) /\ DnsKeeps
    \/ part = "pcbs" /\ Blocks!tcp_fasttmr("q") /\ BlocksKeeps
    \/ part = "timeouts" /\ Due!Passes /\ DueKeeps
    \/ part = "autoip" /\ Auto!Receive(1) /\ AutoKeeps

Weak4 ==
    \/ part = "dns" /\ Dns!Receiver(2) /\ DnsKeeps
    \/ part = "autoip" /\ Auto!Receive(2) /\ AutoKeeps

Strong1 ==
    \/ part = "udp_stop" /\ Stopped!StopStep /\ StoppedKeeps
    \/ part = "autoip" /\ Auto!Talk(1) /\ AutoKeeps

Strong2 ==
    \/ part = "autoip" /\ Auto!Talk(2) /\ AutoKeeps

Fairness ==
    /\ WF_vars(Weak1)
    /\ WF_vars(Weak2)
    /\ WF_vars(Weak3)
    /\ WF_vars(Weak4)
    /\ SF_vars(Strong1)
    /\ SF_vars(Strong2)

Spec == Init /\ [][Next]_vars /\ Fairness

-----------------------------------------------------------------------------
(* ip4.c, ip6.c, icmp.c: no packet on a wire is longer than its MTU, an    *)
(* error or a packet to a group sets off no storm, no packet leaves the    *)
(* scope of its addresses, and the source address is the best of the       *)
(* usable ones.                                                            *)
PacketsCorrect ==
    /\ part = "ip4" =>
         /\ Net4!TypeOK /\ Net4!FitsWire /\ Net4!NoStorm
    /\ part = "ip6" =>
         /\ Net6!TypeOK /\ Net6!FitsWire6 /\ Net6!ScopeKept
    /\ part = "tun4" =>
         /\ Tun4!TypeOK /\ Tun4!FitsWire /\ Tun4!NoStorm
    /\ part = "tun6" =>
         /\ Tun6!TypeOK /\ Tun6!FitsWire6
    /\ part = "ip6_addr" => Addr6!BestSource

(* core/udp_conn.go, stack/dns.go, utils/common.go: queued packets are     *)
(* drained, a reader whose socket was closed under it ends, and the search *)
(* for a name ends, with the name in every record that Reachable           *)
(* describes.                                                              *)
RelaysProgress ==
    /\ []<>(/\ part = "udp" => ~Relay!Draining(1)
            /\ part = "udp_stop" => ~Stopped!Draining(1)
            /\ part = "dns" => ~Dns!Stranded(1)
            /\ part = "hello" => Hello!Over /\ (Hello!Reachable => Hello!Found))
    /\ []<>(/\ part = "dns" => ~Dns!Stranded(2))

(* tcp_slowtmr, tcp_fasttmr: everything written reaches the peer and is    *)
(* acknowledged, the peer hears of what arrived, a closed connection is    *)
(* gone or in TIME_WAIT in the end, and a full backlog drains.             *)
TcpProgress ==
    /\ []<>(/\ part = "sender" => Sender!Arrived
            /\ part = "receiver" => Receiver!Acked
            /\ part = "pcbs" => Blocks!Gone("p"))
    /\ []<>(/\ part = "pcbs" => Blocks!Gone("q"))
    /\ []<>(/\ part = "pcbs" => ~Blocks!BacklogFull("p"))
    /\ []<>(/\ part = "pcbs" => ~Blocks!BacklogFull("q"))

(* tcp_slowtmr, sys_check_timeouts: a scan is not restarted for ever, a    *)
(* call of the timers ends, and every cyclic timer keeps running.          *)
TimersProgress ==
    /\ []<>(/\ part = "timers" => Tmr!Idle
            /\ part = "timeouts" => Due!Idle)
    /\ []<>(/\ part = "timeouts" => Due!Runs("reass"))
    /\ []<>(/\ part = "timeouts" => Due!Runs("nd6"))

(* ip_reass_tmr, ip6_reass_tmr, ip4_forward, icmp_input, autoip.c, dns.c,  *)
(* etharp.c, nd6.c: no datagram waits for ever for its fragments, what a   *)
(* packet sets off among the hosts ends, two hosts do not keep one         *)
(* link-local address, and whoever asks for a name or waits for the        *)
(* address of a neighbour is answered or told.                             *)
NetworkSettles ==
    /\ []<>(/\ part = "ip4_frag" => ~Frag4!Waits("a")
            /\ part = "ip6_frag" => ~Frag6!Waits("a")
            /\ part = "ip4" => Net4!Quiet
            /\ part = "ip6" => Net6!Quiet
            /\ part = "tun4" => Tun4!Quiet
            /\ part = "tun6" => Tun6!Quiet
            /\ part = "autoip" => ~Auto!Clash
            /\ part = "resolver" => ~Resolver!Asks(1)
            /\ part = "arp" => ~Arp!Queued(1)
            /\ part = "nd6" => ~Nd!Waiting(1))
    /\ []<>(/\ part = "ip4_frag" => ~Frag4!Waits("b")
            /\ part = "ip6_frag" => ~Frag6!Waits("b")
            /\ part = "resolver" => ~Resolver!Asks(2)
            /\ part = "arp" => ~Arp!Queued(2))
=============================================================================
