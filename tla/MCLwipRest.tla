----------------------------- MODULE MCLwipRest -----------------------------
(***************************************************************************)
(* What is left of lwIP on small instances. The components share no state, *)
(* so TLC explores them side by side: part says which of them a behaviour  *)
(* is about.                                                               *)
(***************************************************************************)
EXTENDS TLC, Integers, Sequences

CONSTANTS Blocks

VARIABLES
    part,       \* the component that runs
    s1, s2, s3, s4, s5, s6, s7, s8, s9, s10, s11, s12, s13, s14, s15, s16, s17, s18
                \* its variables, in the order of its vars

vars == <<part, s1, s2, s3, s4, s5, s6, s7, s8, s9, s10, s11, s12, s13, s14, s15, s16,
          s17, s18>>

OptionsOf(own, scale, mtu, pad) == [own |-> own, scale |-> scale, mtu |-> mtu, pad |-> pad]
Stacks == {OptionsOf({}, 0, 0, <<>>), OptionsOf({"ts"}, 0, 340, <<>>),
           OptionsOf({"ws", "ts", "sack"}, 1, 320, <<1, 30, 3, 2>>), OptionsOf({"ws", "sack"}, 2, 0, <<254, 4, 8, 10>>)}
Lease(t0, t1, t2) == [t0 |-> t0, t1 |-> t1, t2 |-> t2]
S3(ip, m) == [ip |-> ip, mask |-> m, gw |-> m]
A(t, n) == [type |-> t, a |-> n]
UdpPkt(s, d, port) == [src |-> s, sport |-> 9, dst |-> d, dport |-> port, short |-> FALSE]
UdpPackets == {UdpPkt(A(4, 7), A(4, d), port) : d \in {1, 2, 255}, port \in {5, 7}}
              \cup {UdpPkt(A(4, 8), A(4, d), 7) : d \in {1, 255}}
              \cup {[UdpPkt(A(4, 7), A(4, 1), 6) EXCEPT !.short = TRUE]}
UdpPackets6 == {UdpPkt(A(4, 7), A(4, 1), 6), UdpPkt(A(6, 7), A(6, 1), 6)}
RawPackets == {[src |-> A(4, 7), dst |-> A(4, d), proto |-> 1] : d \in {1, 255}}
              \cup {[src |-> A(6, 7), dst |-> A(6, 1), proto |-> 1]}
FragLayout == [d \in {"a", "b", "c"} |-> CASE d = "a" -> <<3, 6>> [] d = "b" -> <<2, 3>>
                                           [] OTHER -> <<1, 2, 4>>]
Frag6Layout == [d \in {"a", "b", "c"} |-> CASE d = "a" -> <<3, 6>> [] d = "b" -> <<2, 5>>
                                            [] OTHER -> <<1, 3, 3>>]
PcbSymmetry == Permutations(Blocks)

-----------------------------------------------------------------------------
Nd == INSTANCE Nd6 WITH neighbor_cache <- s1, destination_cache <- s2,
      default_router_list <- s3, prefix_list <- s4, cached_dest <- s5,
      cached_neighbor <- s6, last_router <- s7, DELAY_TIME <- 1, REACHABLE_TIME <- 1,
      Netifs <- {1}, QMax <- 1, MTU <- 2, Lifetimes <- {1}, NUM_ROUTERS <- 1,
      NUM_PREFIXES <- 1, NUM_NEIGHBORS <- 2, NUM_DESTINATIONS <- 1, Hosts <- {1},
      Routers <- {2}, Targets <- {3}, Dests <- {11}, Pmtus <- {}, MAX_SOLICIT <- 2

NdDest == INSTANCE Nd6 WITH neighbor_cache <- s1, destination_cache <- s2,
      default_router_list <- s3, prefix_list <- s4, cached_dest <- s5,
      cached_neighbor <- s6, last_router <- s7, DELAY_TIME <- 1, REACHABLE_TIME <- 1,
      Netifs <- {1}, QMax <- 1, MTU <- 2, Lifetimes <- {1}, NUM_ROUTERS <- 1,
      NUM_PREFIXES <- 1, NUM_NEIGHBORS <- 1, NUM_DESTINATIONS <- 1, Hosts <- {1},
      Routers <- {2}, Targets <- {}, Dests <- {11, 12}, Pmtus <- {1}, MAX_SOLICIT <- 1

NdAddr == INSTANCE Nd6Addr WITH addr <- s1, mtu6 <- s2, rs_count <- s3,
      rs_reduction <- s4, up <- s5, out <- s6, NUM_ADDRESSES <- 3,
      DUP_DETECT_ATTEMPTS <- 1, MAX_SOLICIT <- 1, RS_INTERVAL <- 2, TWO_HOURS <- 1,
      INFINITE <- 3, Prefixes <- {1}, Lives <- {0, 2}, MTU <- 3, Mtus <- {2},
      MIN_MTU <- 2, Statics <- {[net |-> 1, host |-> 2]}

Netifs2 == INSTANCE Netif WITH netif <- s1, netif_list <- s2, netif_num <- s3,
      netif_default <- s4, used <- s5, picture <- s6, views <- s7, Netifs <- {1, 2},
      TOP <- 3, Ips <- {0, 1}, Masks <- {0}, Gws <- {0},
      Settings <- {S3(0, 0), S3(1, 0)}, LOOPBACK_MAX <- 0

Netif1 == INSTANCE Netif WITH netif <- s1, netif_list <- s2, netif_num <- s3,
      netif_default <- s4, used <- s5, picture <- s6, views <- s7, Netifs <- {1},
      TOP <- 2, Ips <- {0, 1, 2}, Masks <- {0, 1}, Gws <- {0, 1},
      Settings <- {S3(0, 0), S3(1, 1), S3(2, 0)}, LOOPBACK_MAX <- 2

DhcpC == INSTANCE Dhcp WITH dhcp <- s1, ip <- s2, link <- s3, autoip <- s4,
      refcount <- s5, left <- s6, Netifs <- {1}, Addrs <- {1},
      Leases <- {Lease(3, -1, -1), Lease(9, -1, -1), Lease(-1, 2, 1)}, Infinite <- 9,
      TMAX <- 4, U32 <- 64, MAX_REQUESTS <- 1, COOP_TRIES <- 2, TRIES_MAX <- 2,
      ETHARP <- TRUE, Restarts <- FALSE

Dhcps == INSTANCE Dhcp WITH dhcp <- s1, ip <- s2, link <- s3, autoip <- s4,
      refcount <- s5, left <- s6, Netifs <- {1, 2}, Addrs <- {1},
      Leases <- {Lease(9, 9, 9)}, Infinite <- 9, TMAX <- 4, U32 <- 64,
      MAX_REQUESTS <- 1, COOP_TRIES <- 2, TRIES_MAX <- 2, ETHARP <- FALSE,
      Restarts <- TRUE

Auto == INSTANCE Autoip WITH auto <- s1, ip <- s2, inbox <- s3, joined <- s4,
      Hosts <- {1, 2}, Seed <- <<0, 0>>, RANGE_START <- 1, RANGE_END <- 3, MOD <- 5,
      TRIED <- 3, PROBE_NUM <- 2, ANNOUNCE_NUM <- 2, Splits <- FALSE

DhcpV6 == INSTANCE Dhcp6 WITH dhcp6 <- s1, refcount <- s2, dns <- s3, net <- s4,
      applied <- s5, Netifs <- {1, 2}, Xids <- 1 .. 3, TRIES_MAX <- 2,
      Servers <- {<<1>>, <<1, 2>>}, MAX_SERVERS <- 2, InFlight <- 1

Resolver == INSTANCE Dns WITH dns <- s1, servers <- s2, local <- s3, TABLE_SIZE <- 2,
      MAX_REQUESTS <- 2, MAX_SERVERS <- 1, MAX_PORTS <- 1, MAX_RETRIES <- 1,
      MAX_TTL <- 1, SEQ <- 3, Callers <- {1, 2}, Names <- {1, 2}, Types <- {"v4"},
      Txids <- {1, 2}, Ports <- {1, 2}, Servers <- {1}, NewServers <- {}, Ttls <- {1},
      Records <- {<<"a">>}, InFlight <- 1, LocalMax <- 0

Resolver2 == INSTANCE Dns WITH dns <- s1, servers <- s2, local <- s3, TABLE_SIZE <- 1,
      MAX_REQUESTS <- 1, MAX_SERVERS <- 2, MAX_PORTS <- 1, MAX_RETRIES <- 2,
      MAX_TTL <- 2, SEQ <- 2, Callers <- {1}, Names <- {1}, Types <- {"v4", "v6v4"},
      Txids <- {1, 2}, Ports <- {1}, Servers <- {1}, NewServers <- {0, 1, 2},
      Ttls <- {0, 3}, Records <- {<<>>, <<"cut">>, <<"aaaa", "a">>}, InFlight <- 1,
      LocalMax <- 0

Resolver3 == INSTANCE Dns WITH dns <- s1, servers <- s2, local <- s3, TABLE_SIZE <- 1,
      MAX_REQUESTS <- 1, MAX_SERVERS <- 1, MAX_PORTS <- 1, MAX_RETRIES <- 1,
      MAX_TTL <- 1, SEQ <- 2, Callers <- {1}, Names <- {1},
      Types <- {"v4", "v6", "v4v6", "v6v4"}, Txids <- {1}, Ports <- {1}, Servers <- {1},
      NewServers <- {}, Ttls <- {1}, Records <- {<<>>, <<"aaaa">>, <<"a">>},
      InFlight <- 1, LocalMax <- 2

Arp == INSTANCE Etharp WITH arp_table <- s1, hint <- s2, heard <- s3, out <- s4,
      TABLE_SIZE <- 2, MAXAGE <- 3, MAXPENDING <- 2, QUEUE_LEN <- 2, UNICAST <- 1,
      BROADCAST <- 2, Netifs <- {1}, Hosts <- {1, 2, 3}, Gw <- <<3>>, Macs <- {1},
      Statics <- {1}

Arps == INSTANCE Etharp WITH arp_table <- s1, hint <- s2, heard <- s3, out <- s4,
      TABLE_SIZE <- 2, MAXAGE <- 2, MAXPENDING <- 2, QUEUE_LEN <- 1, UNICAST <- 1,
      BROADCAST <- 1, Netifs <- {1, 2}, Hosts <- {1}, Gw <- <<0, 1>>, Macs <- {1, 2},
      Statics <- {1}

Igmp == INSTANCE Groups WITH group <- s1, filter <- s2, joins <- s3, reporter <- s4,
      sent <- s5, MLD <- FALSE, Netifs <- {1, 2}, Addrs <- {1}, JOIN_TMR <- 3,
      V1_TMR <- 4, Resps <- {0, 4}, UseMax <- 2

Mld == INSTANCE Groups WITH group <- s1, filter <- s2, joins <- s3, reporter <- s4,
      sent <- s5, MLD <- TRUE, Netifs <- {1}, Addrs <- {1, 2}, JOIN_TMR <- 3,
      V1_TMR <- 4, Resps <- {1, 4}, UseMax <- 2

Heap == INSTANCE Mem WITH ram <- s1, lfree <- s2, owned <- s3, free_count <- s4,
      op <- s5, MEM_SIZE <- 10, HDR <- 1, MIN_SIZE <- 1, Sizes <- {1, 2, 4}

Sack == INSTANCE TcpSack WITH pcb <- s1, rcv_sacks <- s2, recent <- s3, Wrap <- 64,
      TCP_WND <- 9, MSS <- 2, IRS <- 61, Total <- 7, MaxSeg <- 2, RecvedSizes <- {1},
      MaxRefuse <- 0, MaxFail <- 0, FinBeyond <- FALSE, MAX_SACK_NUM <- 2,
      OOSEQ_BYTES <- 5

Tmr == INSTANCE TcpTimers WITH active <- s1, bound <- s2, tw <- s3, local_ip <- s4,
      last_timer <- s5, polltmr <- s6, refused <- s7, netif_ip <- s8, tcp_timer <- s9,
      tcp_timer_ctr <- s10, tcp_active_pcbs_changed <- s11, pc <- s12, pcb <- s13,
      prev <- s14, ops <- s15, ticked <- s16, present <- s17, missed <- s18,
      Pcbs <- {"p", "q", "r"}, NULL <- "null", Wild <- "wild", Addrs <- {}, ANY <- 0,
      CtrMod <- 2, PollInterval <- 1, MaxOps <- 1

Moved == INSTANCE TcpTimers WITH active <- s1, bound <- s2, tw <- s3, local_ip <- s4,
      last_timer <- s5, polltmr <- s6, refused <- s7, netif_ip <- s8, tcp_timer <- s9,
      tcp_timer_ctr <- s10, tcp_active_pcbs_changed <- s11, pc <- s12, pcb <- s13,
      prev <- s14, ops <- s15, ticked <- s16, present <- s17, missed <- s18,
      Pcbs <- {"p", "q"}, NULL <- "null", Wild <- "wild", Addrs <- {1, 2}, ANY <- 0,
      CtrMod <- 2, PollInterval <- 1, MaxOps <- 1

Opts == INSTANCE TcpOptions WITH cfg <- s1, pcb <- s2, wire <- s3, Wrap <- 32,
      TCP_MSS <- 300, TCP_WND <- 13, W16 <- 7, HLENS <- 40, INITIAL_MSS <- 268,
      Now <- 258, Configs <- Stacks,
      Rooms <- {<<40, 0>>, <<0, 40>>, <<7, 40>>, <<3, 2>>}, MaxWire <- 2,
      Beyond <- {0, 10}

Frag4 == INSTANCE Ip4Frag WITH reassdatagrams <- s1, ip_reass_pbufcount <- s2,
      out <- s3, Ids <- {"a", "b", "c"}, Layout <- FragLayout,
      Unit <- 2, IP_HLEN <- 1, Mtus <- {3, 5}, U16 <- 12, MAXAGE <- 2, MAX_PBUFS <- 4,
      NUM_REASSDATA <- 2, BUFSIZE <- 3

Frag6 == INSTANCE Ip6Frag WITH reassdatagrams <- s1, ip6_reass_pbufcount <- s2,
      out <- s3, Ids <- {"a", "b", "c"}, Layout <- Frag6Layout, Unit <- 2,
      IP6_HLEN <- 1, IP6_FRAG_HLEN <- 2, Ext <- 0, Mtus <- {5, 8}, U16 <- 12,
      MAXAGE <- 2, MAX_PBUFS <- 4, NUM_REASSDATA <- 2, BUFSIZE <- 5

Udp == INSTANCE UdpPcb WITH pcb <- s1, udp_pcbs <- s2, udp_port <- s3, netif_ip <- s4,
      TUN2SOCKS <- FALSE, Pcbs <- Blocks, Types <- {4}, BindIps <- {A(4, 0), A(4, 1)},
      BindPorts <- {0, 7}, Remotes <- {<<A(4, 7), 9>>}, NetAddrs <- {A(4, 1), A(4, 2)},
      NetAddr6 <- A(6, 1), Packets <- UdpPackets, START <- 5, END <- 6

UdpTun == INSTANCE UdpPcb WITH pcb <- s1, udp_pcbs <- s2, udp_port <- s3,
      netif_ip <- s4, TUN2SOCKS <- TRUE, Pcbs <- Blocks, Types <- {4},
      BindIps <- {A(4, 0)}, BindPorts <- {0}, Remotes <- {<<A(4, 7), 9>>},
      NetAddrs <- {A(4, 1), A(4, 2)}, NetAddr6 <- A(6, 1), Packets <- UdpPackets,
      START <- 5, END <- 6

UdpAny == INSTANCE UdpPcb WITH pcb <- s1, udp_pcbs <- s2, udp_port <- s3,
      netif_ip <- s4, TUN2SOCKS <- FALSE, Pcbs <- Blocks, Types <- {46},
      BindIps <- {A(6, 0), A(6, 1), A(46, 0)}, BindPorts <- {0, 7},
      Remotes <- {<<A(6, 7), 9>>}, NetAddrs <- {A(4, 1)}, NetAddr6 <- A(6, 1),
      Packets <- UdpPackets6, START <- 5, END <- 6

Sums == INSTANCE Checksum WITH arg <- s1, segs <- s2, wire <- s3, B <- 4,
      Bytes <- {1, 3}, ALG <- 2, MSS <- 3, PROTO <- 2, ECHO <- 2, Addrs <- <<37, 250>>,
      Headers <- {<<1, 3>>}, Ats <- {0, 1}, MaxArg <- 7, MaxWrite <- 2, SND_BUF <- 3

Raw == INSTANCE RawPcb WITH pcb <- s1, raw_pcbs <- s2, netif_ip <- s3, out <- s4,
      Pcbs <- Blocks, Types <- {46}, Protos <- {1}, Remotes <- {A(4, 7)},
      NetAddrs <- {A(4, 1), A(4, 2)}, NetAddr6 <- A(6, 1), Packets <- RawPackets

RawOne == INSTANCE RawPcb WITH pcb <- s1, raw_pcbs <- s2, netif_ip <- s3, out <- s4,
      Pcbs <- {"p"}, Types <- {4, 46}, Protos <- {1}, Remotes <- {A(4, 7), A(6, 8)},
      NetAddrs <- {A(4, 1), A(4, 2)}, NetAddr6 <- A(6, 1), Packets <- RawPackets

ASSUME Opts!OptionsAssumption
ASSUME Tmr!TimersAssumption
ASSUME Sack!Recv!ReceiverAssumption
ASSUME Heap!MemAssumption
ASSUME Igmp!GroupsAssumption
ASSUME Arp!EtharpAssumption
ASSUME Resolver!DnsAssumption
ASSUME Resolver2!DnsAssumption
ASSUME DhcpC!DhcpAssumption
ASSUME Dhcps!DhcpAssumption
ASSUME Auto!AutoipAssumption
ASSUME Netifs2!NetifAssumption
ASSUME Nd!Nd6Assumption
ASSUME NdDest!Nd6Assumption
ASSUME Sums!ChecksumAssumption
ASSUME Frag4!FragAssumption
ASSUME Frag6!Frag6Assumption
ASSUME Udp!UdpAssumption

Init ==
    \/ part = "nd6" /\ Nd!Init /\ s8 = 0 /\ s9 = 0 /\ s10 = 0 /\ s11 = 0 /\ s12 = 0 /\ s13 = 0 /\ s14 = 0 /\ s15 = 0 /\ s16 = 0 /\ s17 = 0 /\ s18 = 0
    \/ part = "nd6_dest" /\ NdDest!Init /\ s8 = 0 /\ s9 = 0 /\ s10 = 0 /\ s11 = 0 /\ s12 = 0 /\ s13 = 0 /\ s14 = 0 /\ s15 = 0 /\ s16 = 0 /\ s17 = 0 /\ s18 = 0
    \/ part = "nd6_addr" /\ NdAddr!Init /\ s7 = 0 /\ s8 = 0 /\ s9 = 0 /\ s10 = 0 /\ s11 = 0 /\ s12 = 0 /\ s13 = 0 /\ s14 = 0 /\ s15 = 0 /\ s16 = 0 /\ s17 = 0 /\ s18 = 0
    \/ part = "netifs" /\ Netifs2!Init /\ s8 = 0 /\ s9 = 0 /\ s10 = 0 /\ s11 = 0 /\ s12 = 0 /\ s13 = 0 /\ s14 = 0 /\ s15 = 0 /\ s16 = 0 /\ s17 = 0 /\ s18 = 0
    \/ part = "netif" /\ Netif1!Init /\ s8 = 0 /\ s9 = 0 /\ s10 = 0 /\ s11 = 0 /\ s12 = 0 /\ s13 = 0 /\ s14 = 0 /\ s15 = 0 /\ s16 = 0 /\ s17 = 0 /\ s18 = 0
    \/ part = "dhcp" /\ DhcpC!Init /\ s7 = 0 /\ s8 = 0 /\ s9 = 0 /\ s10 = 0 /\ s11 = 0 /\ s12 = 0 /\ s13 = 0 /\ s14 = 0 /\ s15 = 0 /\ s16 = 0 /\ s17 = 0 /\ s18 = 0
    \/ part = "dhcps" /\ Dhcps!Init /\ s7 = 0 /\ s8 = 0 /\ s9 = 0 /\ s10 = 0 /\ s11 = 0 /\ s12 = 0 /\ s13 = 0 /\ s14 = 0 /\ s15 = 0 /\ s16 = 0 /\ s17 = 0 /\ s18 = 0
    \/ part = "autoip" /\ Auto!Init /\ s5 = 0 /\ s6 = 0 /\ s7 = 0 /\ s8 = 0 /\ s9 = 0 /\ s10 = 0 /\ s11 = 0 /\ s12 = 0 /\ s13 = 0 /\ s14 = 0 /\ s15 = 0 /\ s16 = 0 /\ s17 = 0 /\ s18 = 0
    \/ part = "dhcp6" /\ DhcpV6!Init /\ s6 = 0 /\ s7 = 0 /\ s8 = 0 /\ s9 = 0 /\ s10 = 0 /\ s11 = 0 /\ s12 = 0 /\ s13 = 0 /\ s14 = 0 /\ s15 = 0 /\ s16 = 0 /\ s17 = 0 /\ s18 = 0
    \/ part = "dns" /\ Resolver!Init /\ s4 = 0 /\ s5 = 0 /\ s6 = 0 /\ s7 = 0 /\ s8 = 0 /\ s9 = 0 /\ s10 = 0 /\ s11 = 0 /\ s12 = 0 /\ s13 = 0 /\ s14 = 0 /\ s15 = 0 /\ s16 = 0 /\ s17 = 0 /\ s18 = 0
    \/ part = "dns_servers" /\ Resolver2!Init /\ s4 = 0 /\ s5 = 0 /\ s6 = 0 /\ s7 = 0 /\ s8 = 0 /\ s9 = 0 /\ s10 = 0 /\ s11 = 0 /\ s12 = 0 /\ s13 = 0 /\ s14 = 0 /\ s15 = 0 /\ s16 = 0 /\ s17 = 0 /\ s18 = 0
    \/ part = "dns_local" /\ Resolver3!Init /\ s4 = 0 /\ s5 = 0 /\ s6 = 0 /\ s7 = 0 /\ s8 = 0 /\ s9 = 0 /\ s10 = 0 /\ s11 = 0 /\ s12 = 0 /\ s13 = 0 /\ s14 = 0 /\ s15 = 0 /\ s16 = 0 /\ s17 = 0 /\ s18 = 0
    \/ part = "arp" /\ Arp!Init /\ s5 = 0 /\ s6 = 0 /\ s7 = 0 /\ s8 = 0 /\ s9 = 0 /\ s10 = 0 /\ s11 = 0 /\ s12 = 0 /\ s13 = 0 /\ s14 = 0 /\ s15 = 0 /\ s16 = 0 /\ s17 = 0 /\ s18 = 0
    \/ part = "arps" /\ Arps!Init /\ s5 = 0 /\ s6 = 0 /\ s7 = 0 /\ s8 = 0 /\ s9 = 0 /\ s10 = 0 /\ s11 = 0 /\ s12 = 0 /\ s13 = 0 /\ s14 = 0 /\ s15 = 0 /\ s16 = 0 /\ s17 = 0 /\ s18 = 0
    \/ part = "igmp" /\ Igmp!Init /\ s6 = 0 /\ s7 = 0 /\ s8 = 0 /\ s9 = 0 /\ s10 = 0 /\ s11 = 0 /\ s12 = 0 /\ s13 = 0 /\ s14 = 0 /\ s15 = 0 /\ s16 = 0 /\ s17 = 0 /\ s18 = 0
    \/ part = "mld" /\ Mld!Init /\ s6 = 0 /\ s7 = 0 /\ s8 = 0 /\ s9 = 0 /\ s10 = 0 /\ s11 = 0 /\ s12 = 0 /\ s13 = 0 /\ s14 = 0 /\ s15 = 0 /\ s16 = 0 /\ s17 = 0 /\ s18 = 0
    \/ part = "mem" /\ Heap!Init /\ s6 = 0 /\ s7 = 0 /\ s8 = 0 /\ s9 = 0 /\ s10 = 0 /\ s11 = 0 /\ s12 = 0 /\ s13 = 0 /\ s14 = 0 /\ s15 = 0 /\ s16 = 0 /\ s17 = 0 /\ s18 = 0
    \/ part = "sack" /\ Sack!Init /\ s4 = 0 /\ s5 = 0 /\ s6 = 0 /\ s7 = 0 /\ s8 = 0 /\ s9 = 0 /\ s10 = 0 /\ s11 = 0 /\ s12 = 0 /\ s13 = 0 /\ s14 = 0 /\ s15 = 0 /\ s16 = 0 /\ s17 = 0 /\ s18 = 0
    \/ part = "timers" /\ Tmr!Init
    \/ part = "addr" /\ Moved!Init
    \/ part = "options" /\ Opts!Init /\ s4 = 0 /\ s5 = 0 /\ s6 = 0 /\ s7 = 0 /\ s8 = 0 /\ s9 = 0 /\ s10 = 0 /\ s11 = 0 /\ s12 = 0 /\ s13 = 0 /\ s14 = 0 /\ s15 = 0 /\ s16 = 0 /\ s17 = 0 /\ s18 = 0
    \/ part = "ip4_frag" /\ Frag4!Init /\ s4 = 0 /\ s5 = 0 /\ s6 = 0 /\ s7 = 0 /\ s8 = 0 /\ s9 = 0 /\ s10 = 0 /\ s11 = 0 /\ s12 = 0 /\ s13 = 0 /\ s14 = 0 /\ s15 = 0 /\ s16 = 0 /\ s17 = 0 /\ s18 = 0
    \/ part = "ip6_frag" /\ Frag6!Init /\ s4 = 0 /\ s5 = 0 /\ s6 = 0 /\ s7 = 0 /\ s8 = 0 /\ s9 = 0 /\ s10 = 0 /\ s11 = 0 /\ s12 = 0 /\ s13 = 0 /\ s14 = 0 /\ s15 = 0 /\ s16 = 0 /\ s17 = 0 /\ s18 = 0
    \/ part = "udp" /\ Udp!Init /\ s5 = 0 /\ s6 = 0 /\ s7 = 0 /\ s8 = 0 /\ s9 = 0 /\ s10 = 0 /\ s11 = 0 /\ s12 = 0 /\ s13 = 0 /\ s14 = 0 /\ s15 = 0 /\ s16 = 0 /\ s17 = 0 /\ s18 = 0
    \/ part = "udp_tun" /\ UdpTun!Init /\ s5 = 0 /\ s6 = 0 /\ s7 = 0 /\ s8 = 0 /\ s9 = 0 /\ s10 = 0 /\ s11 = 0 /\ s12 = 0 /\ s13 = 0 /\ s14 = 0 /\ s15 = 0 /\ s16 = 0 /\ s17 = 0 /\ s18 = 0
    \/ part = "udp_any" /\ UdpAny!Init /\ s5 = 0 /\ s6 = 0 /\ s7 = 0 /\ s8 = 0 /\ s9 = 0 /\ s10 = 0 /\ s11 = 0 /\ s12 = 0 /\ s13 = 0 /\ s14 = 0 /\ s15 = 0 /\ s16 = 0 /\ s17 = 0 /\ s18 = 0
    \/ part = "chksum" /\ Sums!Init /\ s4 = 0 /\ s5 = 0 /\ s6 = 0 /\ s7 = 0 /\ s8 = 0 /\ s9 = 0 /\ s10 = 0 /\ s11 = 0 /\ s12 = 0 /\ s13 = 0 /\ s14 = 0 /\ s15 = 0 /\ s16 = 0 /\ s17 = 0 /\ s18 = 0
    \/ part = "raw" /\ Raw!Init /\ s5 = 0 /\ s6 = 0 /\ s7 = 0 /\ s8 = 0 /\ s9 = 0 /\ s10 = 0 /\ s11 = 0 /\ s12 = 0 /\ s13 = 0 /\ s14 = 0 /\ s15 = 0 /\ s16 = 0 /\ s17 = 0 /\ s18 = 0
    \/ part = "raw_one" /\ RawOne!Init /\ s5 = 0 /\ s6 = 0 /\ s7 = 0 /\ s8 = 0 /\ s9 = 0 /\ s10 = 0 /\ s11 = 0 /\ s12 = 0 /\ s13 = 0 /\ s14 = 0 /\ s15 = 0 /\ s16 = 0 /\ s17 = 0 /\ s18 = 0

NdKeeps == UNCHANGED <<part, s8, s9, s10, s11, s12, s13, s14, s15, s16, s17, s18>>
NdDestKeeps == UNCHANGED <<part, s8, s9, s10, s11, s12, s13, s14, s15, s16, s17, s18>>
NdAddrKeeps == UNCHANGED <<part, s7, s8, s9, s10, s11, s12, s13, s14, s15, s16, s17,
                           s18>>
Netifs2Keeps == UNCHANGED <<part, s8, s9, s10, s11, s12, s13, s14, s15, s16, s17, s18>>
Netif1Keeps == UNCHANGED <<part, s8, s9, s10, s11, s12, s13, s14, s15, s16, s17, s18>>
DhcpCKeeps == UNCHANGED <<part, s7, s8, s9, s10, s11, s12, s13, s14, s15, s16, s17,
                          s18>>
DhcpsKeeps == UNCHANGED <<part, s7, s8, s9, s10, s11, s12, s13, s14, s15, s16, s17,
                          s18>>
AutoKeeps == UNCHANGED <<part, s5, s6, s7, s8, s9, s10, s11, s12, s13, s14, s15, s16,
                         s17, s18>>
DhcpV6Keeps == UNCHANGED <<part, s6, s7, s8, s9, s10, s11, s12, s13, s14, s15, s16, s17,
                           s18>>
ResolverKeeps == UNCHANGED <<part, s4, s5, s6, s7, s8, s9, s10, s11, s12, s13, s14, s15,
                             s16, s17, s18>>
Resolver2Keeps == UNCHANGED <<part, s4, s5, s6, s7, s8, s9, s10, s11, s12, s13, s14,
                              s15, s16, s17, s18>>
Resolver3Keeps == UNCHANGED <<part, s4, s5, s6, s7, s8, s9, s10, s11, s12, s13, s14,
                              s15, s16, s17, s18>>
ArpKeeps == UNCHANGED <<part, s5, s6, s7, s8, s9, s10, s11, s12, s13, s14, s15, s16,
                        s17, s18>>
ArpsKeeps == UNCHANGED <<part, s5, s6, s7, s8, s9, s10, s11, s12, s13, s14, s15, s16,
                         s17, s18>>
IgmpKeeps == UNCHANGED <<part, s6, s7, s8, s9, s10, s11, s12, s13, s14, s15, s16, s17,
                         s18>>
MldKeeps == UNCHANGED <<part, s6, s7, s8, s9, s10, s11, s12, s13, s14, s15, s16, s17,
                        s18>>
HeapKeeps == UNCHANGED <<part, s6, s7, s8, s9, s10, s11, s12, s13, s14, s15, s16, s17,
                         s18>>
SackKeeps == UNCHANGED <<part, s4, s5, s6, s7, s8, s9, s10, s11, s12, s13, s14, s15,
                         s16, s17, s18>>
TmrKeeps == UNCHANGED <<part>>
MovedKeeps == UNCHANGED <<part>>
OptsKeeps == UNCHANGED <<part, s4, s5, s6, s7, s8, s9, s10, s11, s12, s13, s14, s15,
                         s16, s17, s18>>

Next ==
    \/ part = "nd6" /\ Nd!Next /\ NdKeeps
    \/ part = "nd6_dest" /\ NdDest!Next /\ NdDestKeeps
    \/ part = "nd6_addr" /\ NdAddr!Next /\ NdAddrKeeps
    \/ part = "netifs" /\ Netifs2!Next /\ Netifs2Keeps
    \/ part = "netif" /\ Netif1!Next /\ Netif1Keeps
    \/ part = "dhcp" /\ DhcpC!Next /\ DhcpCKeeps
    \/ part = "dhcps" /\ Dhcps!Next /\ DhcpsKeeps
    \/ part = "autoip" /\ Auto!Next /\ AutoKeeps
    \/ part = "dhcp6" /\ DhcpV6!Next /\ DhcpV6Keeps
    \/ part = "dns" /\ Resolver!Next /\ ResolverKeeps
    \/ part = "dns_servers" /\ Resolver2!Next /\ Resolver2Keeps
    \/ part = "dns_local" /\ Resolver3!Next /\ Resolver3Keeps
    \/ part = "arp" /\ Arp!Next /\ ArpKeeps
    \/ part = "arps" /\ Arps!Next /\ ArpsKeeps
    \/ part = "igmp" /\ Igmp!Next /\ IgmpKeeps
    \/ part = "mld" /\ Mld!Next /\ MldKeeps
    \/ part = "mem" /\ Heap!Next /\ HeapKeeps
    \/ part = "sack" /\ Sack!Next /\ SackKeeps
    \/ part = "timers" /\ Tmr!Next /\ TmrKeeps
    \/ part = "addr" /\ Moved!Next /\ MovedKeeps
    \/ part = "options" /\ Opts!Next /\ OptsKeeps
    \/ part = "ip4_frag" /\ Frag4!Next /\ SackKeeps
    \/ part = "ip6_frag" /\ Frag6!Next /\ SackKeeps
    \/ part = "udp" /\ Udp!Next /\ ArpKeeps
    \/ part = "udp_tun" /\ UdpTun!Next /\ ArpKeeps
    \/ part = "udp_any" /\ UdpAny!Next /\ ArpKeeps
    \/ part = "chksum" /\ Sums!Next /\ SackKeeps
    \/ part = "raw" /\ Raw!Next /\ ArpKeeps
    \/ part = "raw_one" /\ RawOne!Next /\ ArpKeeps

Spec == Init /\ [][Next]_vars

-----------------------------------------------------------------------------
(* nd6.c: one entry for each neighbour and destination, routers are        *)
(* entries of the cache, an entry has the link-layer address of its        *)
(* neighbour, a destination leads to a neighbour that is still known; no   *)
(* address or prefix is configured twice, and messages have valid sources. *)
NeighboursCorrect ==
    /\ part = "nd6" =>
         /\ Nd!TypeOK /\ Nd!OneEntryEach /\ Nd!RoutersAreEntries /\ Nd!LladdrIsTheirs
         /\ Nd!NextHopLives
    /\ part = "nd6_dest" =>
         /\ NdDest!OneEntryEach /\ NdDest!RoutersAreEntries /\ NdDest!LladdrIsTheirs
         /\ NdDest!NextHopLives
    /\ part = "nd6_addr" =>
         /\ NdAddr!TypeOK /\ NdAddr!AddressesSound /\ NdAddr!SourcesValid

(* nd6.c, netif.c, etharp.c, igmp.c, mld6.c, tcp_slowtmr: a new            *)
(* destination does not take over the path MTU of the one it replaces,     *)
(* blocks learn when their address is gone, no advertisement cuts a life   *)
(* below two hours, traffic leaves static entries alone, a query puts no   *)
(* report off, and no TCP block is ticked twice by one run.                *)
StepsCorrect ==
    [][/\ part = "nd6" => Nd!PmtuNotInheritedStep
       /\ part = "nd6_dest" => NdDest!PmtuNotInheritedStep
       /\ part = "nd6_addr" => NdAddr!LossIsToldStep /\ NdAddr!TwoHourRuleStep
       /\ part = "arp" => Arp!StaticsKeptStep
       /\ part = "arps" => Arps!StaticsKeptStep
       /\ part = "igmp" => Igmp!NeverPutOffStep
       /\ part = "mld" => Mld!NeverPutOffStep
       /\ part = "timers" => Tmr!TickedOnceStep]_vars

(* netif.c: an index names one interface, the neighbours of one that is    *)
(* ready know its address, callbacks tell a listener everything, no        *)
(* connection stays on an address that is gone, and a status callback sees *)
(* no mixture of old and new settings.                                     *)
InterfacesCorrect ==
    /\ part = "netifs" =>
         /\ Netifs2!IndexNamesOne /\ Netifs2!NeighboursKnow /\ Netifs2!PictureTrue
         /\ Netifs2!NoneOnLostAddress
    /\ part = "netif" =>
         /\ Netif1!TypeOK /\ Netif1!IndexNamesOne /\ Netif1!NeighboursKnow
         /\ Netif1!PictureTrue /\ Netif1!NoneOnLostAddress /\ Netif1!LoopCounted
         /\ Netif1!NoMixedView

(* dhcp.c, autoip.c, dhcp6.c: an address is not used after its lease, a    *)
(* client that waits has a timeout, the shared UDP block is counted, DHCP  *)
(* and AutoIP do not both configure, no two hosts use one link-local       *)
(* address, and no answer of an old exchange is used.                      *)
ConfigurationCorrect ==
    /\ part = "dhcp" =>
         /\ DhcpC!TypeOK /\ DhcpC!LeaseHonoured /\ DhcpC!NeverStuck
         /\ DhcpC!OneConfigures
    /\ part = "dhcps" =>
         /\ Dhcps!NeverStuck /\ Dhcps!PcbCounted /\ Dhcps!OneConfigures
    /\ part = "autoip" =>
         /\ Auto!TypeOK /\ Auto!NoTwoOwners /\ Auto!SuppliedIsSet
    /\ part = "dhcp6" =>
         /\ DhcpV6!TypeOK /\ DhcpV6!NoOldAnswer /\ DhcpV6!ClientsServed

(* dns.c, etharp.c, igmp.c, mld6.c, mem.c, tcp_add_sack, tcp_parseopt:     *)
(* nobody who asks for a name is forgotten or gets the address of another, *)
(* a frame goes to the host of its packet, members of a group will report  *)
(* and one that was the last to do so says when it leaves, blocks of the   *)
(* heap do not overlap whoever frees meanwhile, a peer is told only of     *)
(* bytes that are held, and two ends understand the options of each other  *)
(* alike.                                                                  *)
ServicesCorrect ==
    /\ part = "dns" =>
         /\ Resolver!TypeOK /\ Resolver!NoneForgotten /\ Resolver!RightAnswer
         /\ Resolver!PortsSound
    /\ part = "dns_servers" =>
         /\ Resolver2!TypeOK /\ Resolver2!NoneForgotten /\ Resolver2!RightAnswer
         /\ Resolver2!PortsSound
    /\ part = "dns_local" => Resolver3!RightAnswer
    /\ part = "arp" =>
         /\ Arp!TypeOK /\ Arp!OneEntryEach /\ Arp!RightFrame
    /\ part = "arps" =>
         /\ Arps!OneEntryEach /\ Arps!RightFrame
    /\ part = "igmp" =>
         /\ Igmp!TypeOK /\ Igmp!MembershipCounted /\ Igmp!ReportsComing
         /\ Igmp!LeaveWillBeTold
    /\ part = "mld" =>
         /\ Mld!MembershipCounted /\ Mld!ReportsComing /\ Mld!LeaveWillBeTold
    /\ part = "mem" =>
         /\ Heap!TypeOK /\ Heap!HeapSound /\ Heap!NoStalePointer /\ Heap!LfreeLowest
    /\ part = "sack" =>
         /\ Sack!TypeOK /\ Sack!OnlyWhatIsHeld /\ Sack!RecentFirst
    /\ part = "options" =>
         /\ Opts!TypeOK /\ Opts!ParsedAsBuilt /\ Opts!Agreed /\ Opts!WindowsTrue
         /\ Opts!MssFits

(* tcp_slowtmr, tcp_fasttmr, tcp_netif_ip_addr_changed: a scan never uses  *)
(* a block that left its list, callbacks leave no block in two lists, no   *)
(* block is passed over twice, and none keeps an old address.              *)
ScansCorrect ==
    /\ part = "timers" =>
         /\ Tmr!TypeOK /\ Tmr!CursorIsLive /\ Tmr!ListsAreDisjoint
    /\ part = "addr" =>
         /\ Moved!NotStarved /\ Moved!NoOldAddress

(* ip4_reass, ip6_reass: a datagram that is handed on is the one that was  *)
(* sent (IPv6: but for a hole in front of the fragment that completed it), *)
(* fragments queued for one datagram never overlap, and the count of       *)
(* buffers is exact.                                                       *)
ReassemblyCorrect ==
    /\ part = "ip4_frag" =>
         /\ Frag4!TypeOK /\ Frag4!DeliveredWhole /\ Frag4!CountExact /\ Frag4!NoOverlap
    /\ part = "ip6_frag" =>
         /\ Frag6!TypeOK /\ Frag6!HoleOnlyInFront /\ Frag6!CountExact

(* udp.c, raw.c, inet_chksum.c: the list has exactly the blocks with a     *)
(* port, ports run out only when all are taken, a datagram goes to the     *)
(* connected block, else to an open one, who receives can answer, a packet *)
(* is eaten once, no source address is one the interface has lost, and a   *)
(* receiver finds the checksum of every segment and echo reply right.      *)
DatagramsCorrect ==
    /\ part = "udp" =>
         /\ Udp!TypeOK /\ Udp!ListedIffBound /\ Udp!PortsRunOutLate /\ Udp!Dispatch
         /\ Udp!AnswerGoes
    /\ part = "udp_tun" =>
         /\ UdpTun!ListedIffBound /\ UdpTun!AnswerGoes
    /\ part = "udp_any" =>
         /\ UdpAny!Dispatch /\ UdpAny!AnswerGoes
    /\ part = "raw" =>
         /\ Raw!TypeOK /\ Raw!EatenOnce /\ Raw!SourceCurrent
    /\ part = "raw_one" =>
         /\ RawOne!TypeOK /\ RawOne!EatenOnce /\ RawOne!SourceCurrent
    /\ part = "chksum" =>
         /\ Sums!TypeOK /\ Sums!AlgorithmsAgree /\ Sums!ReceiverAccepts
         /\ Sums!SumIsOfData /\ Sums!EchoRight

(* ip_reass_remove_oldest_datagram, udp_bind, udp_netif_ip_addr_changed:   *)
(* the oldest of the other datagrams makes room and a fragment is not      *)
(* thrown away while it could; only an address change makes two blocks     *)
(* match one datagram, and blocks follow the address of their interface.   *)
IpStepsCorrect ==
    [][/\ part = "ip4_frag" => Frag4!OldestGoesStep
       /\ part = "ip6_frag" => Frag6!OldestGoesStep /\ Frag6!NewcomerFitsStep
       /\ part = "udp" => Udp!OwnersStayUniqueStep /\ Udp!SocketFollowsStep]_vars
=============================================================================
