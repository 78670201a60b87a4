SPECIFICATION ClientLiveSpec
CONSTANTS
  MaxConns = 1
  ServerProtos <- DaemonProtos
PROPERTIES EstablishesQUIC
