CONSTANTS
    s1 = s1
    s2 = s2
    t1 = t1
    t2 = t2
    Sensors = {s1, s2}
    Trucks = {t1, t2}
    Home = Home
    NoSensor = NoSensor
    NoTruck = NoTruck
    WebSocket = WebSocket
    MaxIntensity = 2
    MaxInitial = 1
    MaxFires = 1
    MaxOrders <- TwoOrders
SPECIFICATION OrdersSpec
PROPERTY OnlyItsOwnTrucks
